---- MODULE Spec2Model ----
(***************************************************************************)
(* A model of the terminal emulation core of zoumingzhe/terminal:          *)
(*   - TerminalDispatch (src/cascadia/TerminalCore/TerminalDispatch.cpp),  *)
(*     the translation of parsed VT operations into ITerminalApi calls;    *)
(*   - the console host API routines of src/host/getset.cpp (cursor        *)
(*     position, line feed, colour table);                                 *)
(*   - the Selection engine of src/host/selection.cpp.                     *)
(* Each operation of the code is one action; the functions it is composed  *)
(* of are operators over a "run" record that carries the terminal state,   *)
(* the log of ITerminalApi calls made, and how the call ended.             *)
(***************************************************************************)
EXTENDS Integers, Sequences, FiniteSets, TLC

VARIABLES
    term,       \* the state behind ITerminalApi (cursor, modes, attributes, screen)
    terminated, \* TRUE once an exception left a noexcept function (std::terminate)
    con,        \* conhost screen buffer state used by getset.cpp (cursor, viewport)
    colorTable, \* conhost colour table (CONSOLE_INFORMATION), 256 COLORREFs
    termColors, \* the Terminal's colour table behind ITerminalApi::SetColorTableEntry
    sel,        \* the Selection singleton's fields
    hwnd,       \* HwndTerminal: lifetime of its parts, font, Terminal selection, click tracking
    render,     \* a Renderer and its RenderThread, and the thread that made them
    screen,     \* conhost screen buffers: the active text buffer, its margins, the hidden main buffer
    tbuf,       \* text buffer of a Terminal: the cells and the cursor that PrintString writes
    parser,     \* VT parser: the state of the state machine and the sequence accumulated for tracing
    func,       \* a ThrottledFunc: its pending arguments, the dispatcher queue, the timers, the threads in Run
    uia,        \* HwndTerminal's UIA provider, the flag that it was initialized, the threads in _GetUiaProvider
    last        \* the last operation called: name, arguments, result, API calls made

vars == <<term, terminated, con, colorTable, termColors, sel, hwnd, render, screen, tbuf, parser, func, uia, last>>

-----------------------------------------------------------------------------
(* Bounds of the model *)

\* columns of the buffer / viewport
BufW == 3
\* rows of the buffer / viewport
BufH == 3
\* largest small distance / coordinate argument tried besides the 16-bit edge values
MaxArg == 4

-----------------------------------------------------------------------------
(* 16-bit arithmetic: SHORT, SizeTToShort, ShortSub, gsl::narrow<short> *)

SHORT_MAX == 2^15 - 1
SHORT_MIN == -(2^15)

\* an int stored into a SHORT member (COORD{ int, int }) keeps its low 16 bits
ToShort(v) == ((v + 2^15) % 2^16) - 2^15

\* SizeTToShort: fails (FALSE) when the size_t does not fit a SHORT
SizeTToShortOk(n) == n <= SHORT_MAX

\* ShortSub(a, b, &r): fails when a - b leaves the SHORT range
ShortSubOk(a, b) == (a - b >= SHORT_MIN) /\ (a - b <= SHORT_MAX)

\* gsl::narrow<short>(size_t): throws when the value does not fit
NarrowThrows(n) == n > SHORT_MAX

\* the size_t arguments tried: small ones and the edges of the SHORT range
SizeArgs == (0..MaxArg) \cup {SHORT_MAX - 1, SHORT_MAX, SHORT_MAX + 1, 2^16 - 1, 2^16, 2^16 + 1}

-----------------------------------------------------------------------------
(* The terminal state behind ITerminalApi *)

ModeNames == {"cursorKeys", "keypad", "screenReverse", "cursorVisible", "cursorBlinking",
              "win32Input", "vt200Mouse", "utf8Mouse", "sgrMouse", "buttonEventMouse",
              "anyEventMouse", "alternateScroll"}

\* the modes a freshly constructed Terminal has: cursor visible and blinking, all else off
InitModes == [m \in ModeNames |-> m \in {"cursorVisible", "cursorBlinking"}]

InitTerm == [cursorPos |-> [X |-> 0, Y |-> 0],
             modes |-> InitModes,
             attrs |-> "default",
             screen |-> "blank",
             scrollback |-> "empty"]

\* a position inside the buffer: 0 <= X < BufW and 0 <= Y < BufH
InBounds(x, y) == (x >= 0) /\ (x < BufW) /\ (y >= 0) /\ (y < BufH)

\* what an ITerminalApi call can do: succeed, report failure, or throw
Outcomes == {"ok", "fail", "throw"}

BoolStr(b) == IF b THEN "true" ELSE "false"

Min(a, b) == IF a < b THEN a ELSE b
Max(a, b) == IF a > b THEN a ELSE b

\* a run of dispatch code: the terminal state, the ITerminalApi calls made so far,
\* the results of the sub-operations of a composed operation, whether an exception is
\* in flight, whether the process was terminated, and the value returned
NewRun(t) == [t |-> t, calls |-> <<>>, subs |-> <<>>, thrown |-> FALSE, dead |-> FALSE, ret |-> TRUE]

\* one ITerminalApi call with outcome o: it takes effect (t2) only when it succeeds
ApiCall(r, api, arg, pos, o, t2) ==
    [r EXCEPT !.t = IF o = "ok" THEN t2 ELSE @,
              !.calls = Append(@, [api |-> api, arg |-> arg, pos |-> pos, outcome |-> o]),
              !.thrown = (o = "throw"),
              !.ret = (o = "ok")]

NoPos == <<0, 0>>

\* ITerminalApi setters of a boolean mode flag
SetModeApi(r, api, mode, value, o) ==
    ApiCall(r, api, BoolStr(value), NoPos, o, [r.t EXCEPT !.modes[mode] = value])

\* ITerminalApi::SetCursorPosition: a position outside the buffer is refused and
\* leaves the cursor where it is
SetCursorPositionApi(r, x, y, o) ==
    ApiCall(r, "SetCursorPosition", "", <<x, y>>,
            IF o = "ok" /\ ~InBounds(x, y) THEN "fail" ELSE o,
            [r.t EXCEPT !.cursorPos = [X |-> x, Y |-> y]])

\* ITerminalApi::CursorLineFeed: one row down, to column 0 with a carriage return;
\* on the last row the buffer scrolls and the cursor stays on the last row
CursorLineFeedApi(r, withReturn, o) ==
    ApiCall(r, "CursorLineFeed", BoolStr(withReturn), NoPos, o,
            [r.t EXCEPT !.cursorPos = [X |-> IF withReturn THEN 0 ELSE @.X,
                                       Y |-> IF @.Y + 1 < BufH THEN @.Y + 1 ELSE BufH - 1],
                        !.scrollback = IF r.t.cursorPos.Y + 1 < BufH THEN @
                                       ELSE IF r.t.screen = "text" THEN "text" ELSE @])

\* ITerminalApi::EraseInDisplay: All blanks the screen, Scrollback empties the history
EraseInDisplayApi(r, eraseType, o) ==
    ApiCall(r, "EraseInDisplay", eraseType, NoPos, o,
            IF eraseType = "All" THEN [r.t EXCEPT !.screen = "blank"]
            ELSE IF eraseType = "Scrollback" THEN [r.t EXCEPT !.scrollback = "empty"]
            ELSE r.t)

\* ITerminalApi::PrintString: text reaches the screen
PrintStringApi(r, o) ==
    ApiCall(r, "PrintString", "", NoPos, o, [r.t EXCEPT !.screen = "text"])

\* ITerminalApi::SetTextAttributes as used by SetGraphicsRendition
SetTextAttributesApi(r, attrs, o) ==
    ApiCall(r, "SetTextAttributes", attrs, NoPos, o, [r.t EXCEPT !.attrs = attrs])

-----------------------------------------------------------------------------
(* How a function body ends *)

\* function-level try ... CATCH_LOG_RETURN_FALSE(): a caught exception returns false
CATCH_LOG_RETURN_FALSE(r) ==
    IF r.thrown THEN [r EXCEPT !.thrown = FALSE, !.ret = FALSE] ELSE r

\* a noexcept function with no handler: an exception reaching it ends the process
NoexceptNoHandler(r) ==
    IF r.thrown THEN [r EXCEPT !.thrown = FALSE, !.dead = TRUE, !.ret = FALSE] ELSE r

\* "call the API; return true": the API's result is discarded
ReturnTrue(r) == IF r.thrown THEN r ELSE [r EXCEPT !.ret = TRUE]

-----------------------------------------------------------------------------
(* TerminalDispatch: the operations, each from a run r to the run after it.      *)
(* An operation entered after the process was terminated does nothing.           *)

\* CUP: line and column are 1-based size_t; both are converted to SHORT and
\* decremented, and the call is abandoned with false when a conversion fails
CursorPosition(r, line, column, o) ==
    IF r.dead THEN r
    ELSE IF ~(SizeTToShortOk(column) /\ SizeTToShortOk(line)) THEN [r EXCEPT !.ret = FALSE]
    ELSE IF ~(ShortSubOk(column, 1) /\ ShortSubOk(line, 1)) THEN [r EXCEPT !.ret = FALSE]
    ELSE CATCH_LOG_RETURN_FALSE(SetCursorPositionApi(r, column - 1, line - 1, o))

\* DECTCEM: no try block, returns what the API returns
CursorVisibility(r, isVisible, o) ==
    IF r.dead THEN r
    ELSE NoexceptNoHandler(SetModeApi(r, "SetCursorVisibility", "cursorVisible", isVisible, o))

\* ATT610: no try block, returns what the API returns
EnableCursorBlinking(r, enable, o) ==
    IF r.dead THEN r
    ELSE NoexceptNoHandler(SetModeApi(r, "EnableCursorBlinking", "cursorBlinking", enable, o))

\* the new cursor position of a relative move: cursorPos plus (dx, dy), computed in
\* int and stored into the SHORT members of a COORD
RelativeTarget(cursorPos, dx, dy) ==
    [X |-> ToShort(cursorPos.X + dx), Y |-> ToShort(cursorPos.Y + dy)]

\* a relative move by (dx, dy) times the narrowed distance
RelativeMove(r, distance, dx, dy, o) ==
    IF r.dead THEN r
    ELSE IF NarrowThrows(distance) THEN CATCH_LOG_RETURN_FALSE([r EXCEPT !.thrown = TRUE])
    ELSE LET newCursorPos == RelativeTarget(r.t.cursorPos, dx * distance, dy * distance)
         IN  CATCH_LOG_RETURN_FALSE(SetCursorPositionApi(r, newCursorPos.X, newCursorPos.Y, o))

\* CUF: X + distance
CursorForward(r, distance, o) == RelativeMove(r, distance, 1, 0, o)

\* CUB: X - distance
CursorBackward(r, distance, o) == RelativeMove(r, distance, -1, 0, o)

\* CUU: the code adds the distance to Y
CursorUp(r, distance, o) == RelativeMove(r, distance, 0, 1, o)

LineFeedTypes == {"DependsOnMode", "WithoutReturn", "WithReturn", "Invalid"}

\* LF/NEL: DependsOnMode falls through to WithoutReturn; any other value is refused
LineFeed(r, lineFeedType, o) ==
    IF r.dead THEN r
    ELSE IF lineFeedType \in {"DependsOnMode", "WithoutReturn"}
         THEN CATCH_LOG_RETURN_FALSE(CursorLineFeedApi(r, FALSE, o))
    ELSE IF lineFeedType = "WithReturn"
         THEN CATCH_LOG_RETURN_FALSE(CursorLineFeedApi(r, TRUE, o))
    ELSE [r EXCEPT !.ret = FALSE]

\* CR: column 0 of the current row
CarriageReturn(r, o) ==
    IF r.dead THEN r
    ELSE CATCH_LOG_RETURN_FALSE(SetCursorPositionApi(r, 0, r.t.cursorPos.Y, o))

EraseTypes == {"ToEnd", "FromBeginning", "All", "Scrollback"}

\* ED: inside a try block
EraseInDisplay(r, eraseType, o) ==
    IF r.dead THEN r
    ELSE CATCH_LOG_RETURN_FALSE(EraseInDisplayApi(r, eraseType, o))

\* the operations that are a single API call inside try ... CATCH_LOG_RETURN_FALSE()
\* and whose effect is on state the model does not keep
TryDelegatingOps == {"EraseCharacters", "WarningBell", "SetWindowTitle", "SetCursorStyle",
                     "SetCursorColor", "SetClipboard", "SetDefaultForeground",
                     "SetDefaultBackground", "EraseInLine", "DeleteCharacter",
                     "InsertCharacter"}

TryDelegate(r, op, o) ==
    IF r.dead THEN r
    ELSE CATCH_LOG_RETURN_FALSE(ApiCall(r, op, "", NoPos, o, r.t))

\* the operations that are a single API call with no try block
PlainDelegatingOps == {"AddHyperlink", "EndHyperlink"}

PlainDelegate(r, op, o) ==
    IF r.dead THEN r
    ELSE NoexceptNoHandler(ApiCall(r, op, "", NoPos, o, r.t))

\* Print / PrintString: void, noexcept, no try block
PrintString(r, o) ==
    IF r.dead THEN r
    ELSE ReturnTrue(NoexceptNoHandler(PrintStringApi(r, o)))

\* DECKPAM/DECKPNM: calls the API, returns true
SetKeypadMode(r, fApplicationMode, o) ==
    IF r.dead THEN r
    ELSE NoexceptNoHandler(ReturnTrue(SetModeApi(r, "SetKeypadMode", "keypad", fApplicationMode, o)))

\* DECCKM: calls the API, returns true
SetCursorKeysMode(r, applicationMode, o) ==
    IF r.dead THEN r
    ELSE NoexceptNoHandler(ReturnTrue(SetModeApi(r, "SetCursorKeysMode", "cursorKeys", applicationMode, o)))

\* DECSCNM: no try block, returns what the API returns
SetScreenMode(r, reverseMode, o) ==
    IF r.dead THEN r
    ELSE NoexceptNoHandler(SetModeApi(r, "SetScreenMode", "screenReverse", reverseMode, o))

EnableWin32InputMode(r, win32Mode, o) ==
    IF r.dead THEN r
    ELSE NoexceptNoHandler(ReturnTrue(SetModeApi(r, "EnableWin32InputMode", "win32Input", win32Mode, o)))

EnableVT200MouseMode(r, enabled, o) ==
    IF r.dead THEN r
    ELSE NoexceptNoHandler(ReturnTrue(SetModeApi(r, "EnableVT200MouseMode", "vt200Mouse", enabled, o)))

EnableUTF8ExtendedMouseMode(r, enabled, o) ==
    IF r.dead THEN r
    ELSE NoexceptNoHandler(ReturnTrue(SetModeApi(r, "EnableUTF8ExtendedMouseMode", "utf8Mouse", enabled, o)))

EnableSGRExtendedMouseMode(r, enabled, o) ==
    IF r.dead THEN r
    ELSE NoexceptNoHandler(ReturnTrue(SetModeApi(r, "EnableSGRExtendedMouseMode", "sgrMouse", enabled, o)))

EnableButtonEventMouseMode(r, enabled, o) ==
    IF r.dead THEN r
    ELSE NoexceptNoHandler(ReturnTrue(SetModeApi(r, "EnableButtonEventMouseMode", "buttonEventMouse", enabled, o)))

EnableAnyEventMouseMode(r, enabled, o) ==
    IF r.dead THEN r
    ELSE NoexceptNoHandler(ReturnTrue(SetModeApi(r, "EnableAnyEventMouseMode", "anyEventMouse", enabled, o)))

EnableAlternateScroll(r, enabled, o) ==
    IF r.dead THEN r
    ELSE NoexceptNoHandler(ReturnTrue(SetModeApi(r, "EnableAlternateScrollMode", "alternateScroll", enabled, o)))

SgrOptions == {"none", "bold"}

\* SGR: no options (or 0) give the default rendition, others change the attributes
SetGraphicsRendition(r, options, o) ==
    IF r.dead THEN r
    ELSE CATCH_LOG_RETURN_FALSE(
             SetTextAttributesApi(r, IF options = "none" THEN "default" ELSE "custom", o))

-----------------------------------------------------------------------------
(* DECSET / DECRST *)

\* the private modes _PrivateModeParamsHelper has a case for
RecognizedParams == {"DECCKM_CursorKeysMode", "DECSCNM_ScreenMode", "VT200_MOUSE_MODE",
                     "BUTTON_EVENT_MOUSE_MODE", "ANY_EVENT_MOUSE_MODE", "UTF8_EXTENDED_MODE",
                     "SGR_EXTENDED_MODE", "ALTERNATE_SCROLL", "DECTCEM_TextCursorEnableMode",
                     "ATT610_StartCursorBlink", "W32IM_Win32InputMode"}

\* private modes the switch has no case for: they reach its default label
UnrecognizedParams == {"DECANM_AnsiMode", "DECCOLM_SetNumberOfColumns", "DECOM_OriginMode",
                       "DECAWM_AutoWrapMode", "ASB_AlternateScreenBuffer", "Unknown"}

PrivateModeParams == RecognizedParams \cup UnrecognizedParams

\* the switch with its default label falling into the DECCKM case
PrivateModeParamsHelper_DefaultFallsThrough(r, param, enable, o) ==
    IF r.dead THEN r
    ELSE CASE param = "DECSCNM_ScreenMode" -> SetScreenMode(r, enable, o)
           [] param = "VT200_MOUSE_MODE" -> EnableVT200MouseMode(r, enable, o)
           [] param = "BUTTON_EVENT_MOUSE_MODE" -> EnableButtonEventMouseMode(r, enable, o)
           [] param = "ANY_EVENT_MOUSE_MODE" -> EnableAnyEventMouseMode(r, enable, o)
           [] param = "UTF8_EXTENDED_MODE" -> EnableUTF8ExtendedMouseMode(r, enable, o)
           [] param = "SGR_EXTENDED_MODE" -> EnableSGRExtendedMouseMode(r, enable, o)
           [] param = "ALTERNATE_SCROLL" -> EnableAlternateScroll(r, enable, o)
           [] param = "DECTCEM_TextCursorEnableMode" -> CursorVisibility(r, enable, o)
           [] param = "ATT610_StartCursorBlink" -> EnableCursorBlinking(r, enable, o)
           [] param = "W32IM_Win32InputMode" -> EnableWin32InputMode(r, enable, o)
           [] OTHER -> SetCursorKeysMode(r, enable, o)

\* the switch of _PrivateModeParamsHelper: success starts false, each case calls one
\* setter, the default case calls none
_PrivateModeParamsHelper(r, param, enable, o) ==
    IF r.dead THEN r
    ELSE CASE param = "DECCKM_CursorKeysMode" -> SetCursorKeysMode(r, enable, o)
           [] param = "DECSCNM_ScreenMode" -> SetScreenMode(r, enable, o)
           [] param = "VT200_MOUSE_MODE" -> EnableVT200MouseMode(r, enable, o)
           [] param = "BUTTON_EVENT_MOUSE_MODE" -> EnableButtonEventMouseMode(r, enable, o)
           [] param = "ANY_EVENT_MOUSE_MODE" -> EnableAnyEventMouseMode(r, enable, o)
           [] param = "UTF8_EXTENDED_MODE" -> EnableUTF8ExtendedMouseMode(r, enable, o)
           [] param = "SGR_EXTENDED_MODE" -> EnableSGRExtendedMouseMode(r, enable, o)
           [] param = "ALTERNATE_SCROLL" -> EnableAlternateScroll(r, enable, o)
           [] param = "DECTCEM_TextCursorEnableMode" -> CursorVisibility(r, enable, o)
           [] param = "ATT610_StartCursorBlink" -> EnableCursorBlinking(r, enable, o)
           [] param = "W32IM_Win32InputMode" -> EnableWin32InputMode(r, enable, o)
           [] OTHER -> [r EXCEPT !.ret = FALSE]

SetPrivateMode(r, param, o) == _PrivateModeParamsHelper(r, param, TRUE, o)

ResetPrivateMode(r, param, o) == _PrivateModeParamsHelper(r, param, FALSE, o)

-----------------------------------------------------------------------------
(* DECSTR / RIS *)

\* "success = success && X()": X does not run once success is false
AndSuccess_ShortCircuit(prev, cur, name) ==
    IF ~prev.ret THEN prev
    ELSE IF cur.dead THEN cur
    ELSE [cur EXCEPT !.ret = cur.ret /\ prev.ret,
                     !.subs = Append(prev.subs, [op |-> name, ret |-> cur.ret])]

\* "success = X() && success": X runs first, whatever success is; its result is
\* recorded as a sub-operation result and and-ed into success
AndSuccess(prev, cur, name) ==
    IF cur.dead THEN cur
    ELSE [cur EXCEPT !.ret = cur.ret /\ prev.ret,
                     !.subs = Append(prev.subs, [op |-> name, ret |-> cur.ret])]

\* the start of a composed operation: no sub-operation yet, success = true
Begin(r) == [r EXCEPT !.subs = <<>>, !.ret = TRUE]

\* "success = X()": the result so far is overwritten instead of and-ed
OverwriteSuccess(prev, cur, name) ==
    IF cur.dead THEN cur
    ELSE [cur EXCEPT !.subs = Append(prev.subs, [op |-> name, ret |-> cur.ret])]

\* SoftReset whose last step overwrites success
SoftReset_LastStepWins(r, os) ==
    IF r.dead THEN r
    ELSE LET r0 == Begin(r)
             s1 == AndSuccess(r0, CursorVisibility(r0, TRUE, os[1]), "CursorVisibility")
             s2 == AndSuccess(s1, SetCursorKeysMode(s1, FALSE, os[2]), "SetCursorKeysMode")
             s3 == AndSuccess(s2, SetKeypadMode(s2, FALSE, os[3]), "SetKeypadMode")
             s4 == OverwriteSuccess(s3, SetGraphicsRendition(s3, "none", os[4]), "SetGraphicsRendition")
         IN  s4

\* SoftReset: cursor visible, normal cursor keys, numeric keypad, normal rendition.
\* os[1..4] are the outcomes of the four API calls.
SoftReset(r, os) ==
    IF r.dead THEN r
    ELSE LET r0 == Begin(r)
             s1 == AndSuccess(r0, CursorVisibility(r0, TRUE, os[1]), "CursorVisibility")
             s2 == AndSuccess(s1, SetCursorKeysMode(s1, FALSE, os[2]), "SetCursorKeysMode")
             s3 == AndSuccess(s2, SetKeypadMode(s2, FALSE, os[3]), "SetKeypadMode")
             s4 == AndSuccess(s3, SetGraphicsRendition(s3, "none", os[4]), "SetGraphicsRendition")
         IN  s4

\* HardReset that homes the cursor before it erases the screen
HardReset_CursorFirst(r, os) ==
    IF r.dead THEN r
    ELSE LET r0 == Begin(r)
             sr == SoftReset(r0, os)
             h1 == AndSuccess(r0, sr, "SoftReset")
             h2 == AndSuccess(h1, CursorPosition(h1, 1, 1, os[8]), "CursorPosition")
             h3 == AndSuccess(h2, EraseInDisplay(h2, "All", os[5]), "EraseInDisplay(All)")
             h4 == AndSuccess(h3, EraseInDisplay(h3, "Scrollback", os[6]), "EraseInDisplay(Scrollback)")
             h5 == AndSuccess(h4, SetScreenMode(h4, FALSE, os[7]), "SetScreenMode")
         IN  h5

\* HardReset: SoftReset, erase screen, erase scrollback, screen mode normal, cursor
\* to 1,1. os[1..4] are SoftReset's outcomes, os[5..8] those of the four later calls.
HardReset(r, os) ==
    IF r.dead THEN r
    ELSE LET r0 == Begin(r)
             sr == SoftReset(r0, os)
             h1 == AndSuccess(r0, sr, "SoftReset")
             h2 == AndSuccess(h1, EraseInDisplay(h1, "All", os[5]), "EraseInDisplay(All)")
             h3 == AndSuccess(h2, EraseInDisplay(h2, "Scrollback", os[6]), "EraseInDisplay(Scrollback)")
             h4 == AndSuccess(h3, SetScreenMode(h3, FALSE, os[7]), "SetScreenMode")
             h5 == AndSuccess(h4, CursorPosition(h4, 1, 1, os[8]), "CursorPosition")
         IN  h5

-----------------------------------------------------------------------------
(* The dispatch actions: one TerminalDispatch call each. Args is the set of      *)
(* size_t arguments and O the set of API outcomes the environment tries.         *)

\* most API calls of one composed operation that fail or throw
MaxFaults == 1

\* vectors of n outcomes with at most MaxFaults of them not "ok"
OutcomeVectors(n) ==
    {os \in [1..n -> Outcomes] : Cardinality({i \in 1..n : os[i] # "ok"}) <= MaxFaults}

NoOp == [op |-> "none", arg |-> "", n |-> 0, m |-> 0, ret |-> TRUE, hr |-> "", out |-> 0,
         calls |-> <<>>, subs |-> <<>>]

\* the call op(arg, n, m) ran as r: its effects and its result become the state
Dispatched(op, arg, n, m, r) ==
    /\ ~terminated
    /\ term' = r.t
    /\ terminated' = r.dead
    /\ last' = [op |-> op, arg |-> arg, n |-> n, m |-> m, ret |-> r.ret, hr |-> "", out |-> 0,
                calls |-> r.calls, subs |-> r.subs]
    /\ UNCHANGED <<con, colorTable, termColors, sel, hwnd, render, screen, tbuf, parser, func, uia>>

Do_CursorPosition(Args, O) ==
    \E line \in Args, column \in Args, o \in O :
        Dispatched("CursorPosition", "", line, column, CursorPosition(NewRun(term), line, column, o))

Do_CursorForward(Args, O) ==
    \E distance \in Args, o \in O :
        Dispatched("CursorForward", "", distance, 0, CursorForward(NewRun(term), distance, o))

Do_CursorBackward(Args, O) ==
    \E distance \in Args, o \in O :
        Dispatched("CursorBackward", "", distance, 0, CursorBackward(NewRun(term), distance, o))

Do_CursorUp(Args, O) ==
    \E distance \in Args, o \in O :
        Dispatched("CursorUp", "", distance, 0, CursorUp(NewRun(term), distance, o))

Do_CarriageReturn(O) ==
    \E o \in O :
        Dispatched("CarriageReturn", "", 0, 0, CarriageReturn(NewRun(term), o))

Do_LineFeed(O) ==
    \E lf \in LineFeedTypes, o \in O :
        Dispatched("LineFeed", lf, 0, 0, LineFeed(NewRun(term), lf, o))

Do_CursorVisibility(O) ==
    \E b \in BOOLEAN, o \in O :
        Dispatched("CursorVisibility", BoolStr(b), 0, 0, CursorVisibility(NewRun(term), b, o))

Do_SetCursorKeysMode(O) ==
    \E b \in BOOLEAN, o \in O :
        Dispatched("SetCursorKeysMode", BoolStr(b), 0, 0, SetCursorKeysMode(NewRun(term), b, o))

Do_SetKeypadMode(O) ==
    \E b \in BOOLEAN, o \in O :
        Dispatched("SetKeypadMode", BoolStr(b), 0, 0, SetKeypadMode(NewRun(term), b, o))

Do_SetScreenMode(O) ==
    \E b \in BOOLEAN, o \in O :
        Dispatched("SetScreenMode", BoolStr(b), 0, 0, SetScreenMode(NewRun(term), b, o))

Do_SetGraphicsRendition(O) ==
    \E options \in SgrOptions, o \in O :
        Dispatched("SetGraphicsRendition", options, 0, 0,
                   SetGraphicsRendition(NewRun(term), options, o))

Do_EraseInDisplay(O) ==
    \E e \in EraseTypes, o \in O :
        Dispatched("EraseInDisplay", e, 0, 0, EraseInDisplay(NewRun(term), e, o))

Do_PrintString(O) ==
    \E o \in O :
        Dispatched("PrintString", "", 0, 0, PrintString(NewRun(term), o))

Do_TryDelegate(O) ==
    \E op \in TryDelegatingOps, o \in O :
        Dispatched(op, "", 0, 0, TryDelegate(NewRun(term), op, o))

Do_PlainDelegate(O) ==
    \E op \in PlainDelegatingOps, o \in O :
        Dispatched(op, "", 0, 0, PlainDelegate(NewRun(term), op, o))

Do_SetPrivateMode(O) ==
    \E param \in PrivateModeParams, o \in O :
        Dispatched("SetPrivateMode", param, 0, 0, SetPrivateMode(NewRun(term), param, o))

Do_ResetPrivateMode(O) ==
    \E param \in PrivateModeParams, o \in O :
        Dispatched("ResetPrivateMode", param, 0, 0, ResetPrivateMode(NewRun(term), param, o))

Do_SoftReset ==
    \E os \in OutcomeVectors(4) :
        Dispatched("SoftReset", "", 0, 0, SoftReset(NewRun(term), os))

Do_HardReset ==
    \E os \in OutcomeVectors(8) :
        Dispatched("HardReset", "", 0, 0, HardReset(NewRun(term), os))

-----------------------------------------------------------------------------
(* The console host: cursor routines of getset.cpp on a SCREEN_INFORMATION       *)

\* the viewport is one column and one row smaller than the buffer
ViewW == BufW - 1
ViewH == BufH - 1

InitCon == [cursorPos |-> [X |-> 0, Y |-> 0], viewport |-> [Left |-> 0, Top |-> 0],
            InputMode |-> {}, Flags |-> {}, insertMode |-> FALSE, fullscreen |-> FALSE]

\* SHORT coordinates tried: around the buffer and the edges of the SHORT range
CoordArgs == (-1..MaxArg) \cup {SHORT_MIN, SHORT_MAX}

\* what the calls made by a console routine can do
ConOutcomes == {"ok", "throws", "vtio_fails", "set_fails", "viewport_fails"}

Clamp(v, lo, hi) == IF v < lo THEN lo ELSE IF v > hi THEN hi ELSE v

\* SCREEN_INFORMATION::SetViewportOrigin: the origin is clamped so that the viewport
\* stays inside the buffer
SetViewportOrigin(origin) ==
    [Left |-> Clamp(origin.Left, 0, BufW - ViewW), Top |-> Clamp(origin.Top, 0, BufH - ViewH)]

\* the window origin that brings position into the viewport
SnapOrigin(viewport, position) ==
    LET Right == viewport.Left + ViewW - 1
        Bottom == viewport.Top + ViewH - 1
        dX == IF viewport.Left > position.X THEN position.X - viewport.Left
              ELSE IF Right < position.X THEN position.X - Right ELSE 0
        dY == IF viewport.Top > position.Y THEN position.Y - viewport.Top
              ELSE IF Bottom < position.Y THEN position.Y - Bottom ELSE 0
    IN  [Left |-> viewport.Left + dX, Top |-> viewport.Top + dY]

\* the bounds check with > for >=
SetConsoleCursorPositionImpl_OffByOne(c, x, y, o) ==
    IF o = "throws" THEN [c |-> c, hr |-> "E_FAIL"]
    ELSE IF x > BufW \/ y > BufH \/ x < 0 \/ y < 0 THEN [c |-> c, hr |-> "E_INVALIDARG"]
    ELSE IF o = "vtio_fails" THEN [c |-> c, hr |-> "E_FAIL"]
    ELSE IF o = "set_fails" THEN [c |-> c, hr |-> "E_FAIL"]
    ELSE LET moved == [c EXCEPT !.cursorPos = [X |-> x, Y |-> y]]
         IN  IF o = "viewport_fails" THEN [c |-> moved, hr |-> "E_FAIL"]
             ELSE [c |-> [moved EXCEPT !.viewport = SetViewportOrigin(SnapOrigin(c.viewport, [X |-> x, Y |-> y]))],
                   hr |-> "S_OK"]

\* ApiRoutines::SetConsoleCursorPositionImpl: E_INVALIDARG outside the buffer; then
\* the VT I/O and the buffer take the position, and the viewport snaps to the cursor.
\* Each of these calls can fail and end the routine with a failure code.
SetConsoleCursorPositionImpl(c, x, y, o) ==
    IF o = "throws" THEN [c |-> c, hr |-> "E_FAIL"]
    ELSE IF x >= BufW \/ y >= BufH \/ x < 0 \/ y < 0 THEN [c |-> c, hr |-> "E_INVALIDARG"]
    ELSE IF o = "vtio_fails" THEN [c |-> c, hr |-> "E_FAIL"]
    ELSE IF o = "set_fails" THEN [c |-> c, hr |-> "E_FAIL"]
    ELSE LET moved == [c EXCEPT !.cursorPos = [X |-> x, Y |-> y]]
         IN  IF o = "viewport_fails" THEN [c |-> moved, hr |-> "E_FAIL"]
             ELSE [c |-> [moved EXCEPT !.viewport = SetViewportOrigin(SnapOrigin(c.viewport, [X |-> x, Y |-> y]))],
                   hr |-> "S_OK"]

\* AdjustCursorPosition: a position below the last row scrolls the buffer and puts the
\* cursor on the last row; the viewport follows the cursor
AdjustCursorPosition(c, position) ==
    LET pos == [X |-> position.X, Y |-> IF position.Y >= BufH THEN BufH - 1 ELSE position.Y]
    IN  [c EXCEPT !.cursorPos = pos, !.viewport = SetViewportOrigin(SnapOrigin(c.viewport, pos))]

\* DoSrvPrivateLineFeed: Y + 1, X = 0 with a carriage return, then AdjustCursorPosition
DoSrvPrivateLineFeed(c, withReturn) ==
    LET cursorPosition == [X |-> IF withReturn THEN 0 ELSE c.cursorPos.X, Y |-> c.cursorPos.Y + 1]
    IN  [c |-> AdjustCursorPosition(c, cursorPosition), hr |-> "S_OK"]

\* the console routine op(n, m) ran with result res
ConsoleCalled(op, arg, n, m, res) ==
    /\ con' = res.c
    /\ last' = [op |-> op, arg |-> arg, n |-> n, m |-> m, ret |-> (res.hr = "S_OK"), hr |-> res.hr,
                out |-> 0, calls |-> <<>>, subs |-> <<>>]
    /\ UNCHANGED <<term, terminated, colorTable, termColors, sel, hwnd, render, screen, tbuf, parser, func, uia>>

Do_SetConsoleCursorPosition ==
    \E x \in CoordArgs, y \in CoordArgs, o \in ConOutcomes :
        ConsoleCalled("SetConsoleCursorPosition", o, x, y, SetConsoleCursorPositionImpl(con, x, y, o))

Do_DoSrvPrivateLineFeed ==
    \E withReturn \in BOOLEAN :
        ConsoleCalled("DoSrvPrivateLineFeed", BoolStr(withReturn), 0, 0, DoSrvPrivateLineFeed(con, withReturn))

-----------------------------------------------------------------------------
(* Color tables: the console's table behind DoSrvPrivate{Get,Set}ColorTableEntry, *)
(* the Terminal's table behind TerminalDispatch::SetColorTableEntry, and TextColor *)

\* entries of a color table
TableSize == 256

\* a table whose entries are pairwise different, and different from the colors set
InitColorTable == [i \in 0..(TableSize - 1) |-> i * 256]

\* the default color handed to TextColor::GetColor
DefaultColor == 8421504

\* COLORREF values set: 0x0000FF and 0xFFFFFF
ColorArgs == {255, 16777215}

\* size_t indices tried: the first entries, both sides of the end of the table, and an
\* index whose low 16 bits are a valid index
IndexArgs == {0, 1, TableSize - 1, TableSize, TableSize + 1, 2^16 + 1}

\* the xterm order of the first 16 colors has red in bit 0 and blue in bit 2, the
\* Windows order has blue in bit 0 and red in bit 2; other indices are the same
Xterm256ToWindowsIndex(index) ==
    IF index < 16
    THEN ((index % 2) * 4) + (((index \div 2) % 2) * 2) + ((index \div 4) % 2) + (((index \div 8) % 2) * 8)
    ELSE index

\* CONSOLE_INFORMATION::SetColorTableEntry and GetColorTableEntry
gci_SetColorTableEntry(table, index, value) ==
    [j \in DOMAIN table |-> IF j = index THEN value ELSE table[j]]

gci_GetColorTableEntry(table, index) == table[index]

\* the range check with > for >=
DoSrvPrivateSetColorTableEntry_OffByOne(table, index, value, o) ==
    IF index > TableSize THEN [table |-> table, hr |-> "E_INVALIDARG"]
    ELSE IF o = "throws" THEN [table |-> table, hr |-> "E_FAIL"]
    ELSE [table |-> gci_SetColorTableEntry(table, Xterm256ToWindowsIndex(index), value), hr |-> "S_OK"]

\* DoSrvPrivateSetColorTableEntry: E_INVALIDARG for index >= 256, else the entry at
\* the converted index is set; an exception becomes a failure code
DoSrvPrivateSetColorTableEntry(table, index, value, o) ==
    IF index >= TableSize THEN [table |-> table, hr |-> "E_INVALIDARG"]
    ELSE IF o = "throws" THEN [table |-> table, hr |-> "E_FAIL"]
    ELSE [table |-> gci_SetColorTableEntry(table, Xterm256ToWindowsIndex(index), value), hr |-> "S_OK"]

\* the entry is read at the index as given
DoSrvPrivateGetColorTableEntry_RawIndex(table, index, value, o) ==
    IF index >= TableSize THEN [value |-> value, hr |-> "E_INVALIDARG"]
    ELSE IF o = "throws" THEN [value |-> value, hr |-> "E_FAIL"]
    ELSE [value |-> gci_GetColorTableEntry(table, index), hr |-> "S_OK"]

\* DoSrvPrivateGetColorTableEntry: E_INVALIDARG for index >= 256, else value receives
\* the entry at the converted index; on failure value is left as it was
DoSrvPrivateGetColorTableEntry(table, index, value, o) ==
    IF index >= TableSize THEN [value |-> value, hr |-> "E_INVALIDARG"]
    ELSE IF o = "throws" THEN [value |-> value, hr |-> "E_FAIL"]
    ELSE [value |-> gci_GetColorTableEntry(table, Xterm256ToWindowsIndex(index)), hr |-> "S_OK"]

\* Terminal::SetColorTableEntry behind ITerminalApi: an index outside the table throws,
\* otherwise the entry is set unless the call fails or throws
Terminal_SetColorTableEntry(table, tableIndex, color, o) ==
    IF tableIndex >= TableSize THEN [table |-> table, outcome |-> "throw"]
    ELSE IF o = "ok" THEN [table |-> [table EXCEPT ![tableIndex] = color], outcome |-> "ok"]
    ELSE [table |-> table, outcome |-> o]

\* TerminalDispatch::SetColorTableEntry: returns what the Terminal returns; the
\* function-try-block turns an exception into false
SetColorTableEntry(table, tableIndex, color, o) ==
    LET api == Terminal_SetColorTableEntry(table, tableIndex, color, o)
    IN  [table |-> api.table, ret |-> (api.outcome = "ok"),
         calls |-> <<[api |-> "SetColorTableEntry", arg |-> "", pos |-> <<tableIndex, color>>,
                      outcome |-> api.outcome]>>]

\* TextColor: the three constructors
TextColor_Default == [meta |-> "IsDefault", index |-> 0, rgb |-> 0]

TextColor_Index(index, isIndex256) ==
    [meta |-> IF isIndex256 THEN "IsIndex256" ELSE "IsIndex16", index |-> index % 256, rgb |-> 0]

TextColor_Rgb(rgb) == [meta |-> "IsRgb", index |-> 0, rgb |-> rgb]

\* TextColor::GetColor without brightening: the default color, the table entry of an
\* indexed color, or the stored RGB value
GetColor(color, table, defaultColor) ==
    CASE color.meta = "IsDefault" -> defaultColor
      [] color.meta = "IsRgb" -> color.rgb
      [] OTHER -> table[color.index]

\* the TextColor values resolved
TextColors ==
    {TextColor_Default} \cup {TextColor_Rgb(c) : c \in ColorArgs}
        \cup {TextColor_Index(i, b) : i \in {j \in IndexArgs : j < TableSize}, b \in BOOLEAN}

Do_DoSrvPrivateSetColorTableEntry ==
    \E index \in IndexArgs, value \in ColorArgs, o \in {"ok", "throws"} :
        LET res == DoSrvPrivateSetColorTableEntry(colorTable, index, value, o)
        IN  /\ colorTable' = res.table
            /\ last' = [op |-> "DoSrvPrivateSetColorTableEntry", arg |-> o, n |-> index, m |-> value,
                        ret |-> (res.hr = "S_OK"), hr |-> res.hr, out |-> 0,
                        calls |-> <<>>, subs |-> <<>>]
            /\ UNCHANGED <<term, terminated, con, termColors, sel, hwnd, render, screen, tbuf, parser, func, uia>>

\* the caller's value starts as 0
Do_DoSrvPrivateGetColorTableEntry ==
    \E index \in IndexArgs, o \in {"ok", "throws"} :
        LET res == DoSrvPrivateGetColorTableEntry(colorTable, index, 0, o)
        IN  /\ last' = [op |-> "DoSrvPrivateGetColorTableEntry", arg |-> o, n |-> index, m |-> 0,
                        ret |-> (res.hr = "S_OK"), hr |-> res.hr, out |-> res.value,
                        calls |-> <<>>, subs |-> <<>>]
            /\ UNCHANGED <<term, terminated, con, colorTable, termColors, sel, hwnd, render, screen, tbuf, parser, func, uia>>

Do_SetColorTableEntry ==
    \E tableIndex \in IndexArgs, color \in ColorArgs, o \in Outcomes :
        LET res == SetColorTableEntry(termColors, tableIndex, color, o)
        IN  /\ ~terminated
            /\ termColors' = res.table
            /\ last' = [op |-> "SetColorTableEntry", arg |-> o, n |-> tableIndex, m |-> color,
                        ret |-> res.ret, hr |-> "", out |-> 0,
                        calls |-> res.calls, subs |-> <<>>]
            /\ UNCHANGED <<term, terminated, con, colorTable, sel, hwnd, render, screen, tbuf, parser, func, uia>>

Do_GetColor ==
    \E color \in TextColors :
        /\ ~terminated
        /\ last' = [op |-> "GetColor", arg |-> color.meta, n |-> color.index, m |-> color.rgb,
                    ret |-> TRUE, hr |-> "", out |-> GetColor(color, termColors, DefaultColor),
                    calls |-> <<>>, subs |-> <<>>]
        /\ UNCHANGED <<term, terminated, con, colorTable, termColors, sel, hwnd, render, screen, tbuf, parser, func, uia>>

-----------------------------------------------------------------------------
(* The selection of the console host: selection.cpp *)

\* Selection::Selection(): nothing selected, line selection, mouse drag allowed
InitSel == [selecting |-> FALSE,
            flags |-> {},
            anchor |-> [X |-> 0, Y |-> 0],
            rect |-> [Left |-> 0, Top |-> 0, Right |-> 0, Bottom |-> 0],
            visible |-> FALSE,
            lineSelection |-> TRUE,
            useAlternate |-> FALSE,
            allowMouseDrag |-> TRUE,
            savedCursorPosition |-> [X |-> 0, Y |-> 0]]

\* coordinates of the positions handed to the selection: inside the buffer and one
\* step outside on either side
SelCoordsX == {-1, 0, BufW - 1, BufW}
SelCoordsY == {-1, 0, BufH - 1, BufH}

IsInSelectingState(s) == s.selecting
IsAreaSelected(s) == "CONSOLE_SELECTION_NOT_EMPTY" \in s.flags
IsMouseInitiatedSelection(s) == "CONSOLE_MOUSE_SELECTION" \in s.flags

\* Selection::_SetSelectionVisibility: only a selection in progress that has an area
\* changes its visibility
_SetSelectionVisibility(s, fMakeVisible) ==
    IF IsInSelectingState(s) /\ IsAreaSelected(s) THEN [s EXCEPT !.visible = fMakeVisible] ELSE s

ShowSelection(s) == _SetSelectionVisibility(s, TRUE)
HideSelection(s) == _SetSelectionVisibility(s, FALSE)

\* Selection::InitializeMouseSelection: selecting state, both flags, the anchor and a
\* 1x1 rectangle at the position given; altDown is the ALT key that
\* CheckAndSetAlternateSelection reads
InitializeMouseSelection(s, coordBufferPos, altDown) ==
    [s EXCEPT !.selecting = TRUE,
              !.flags = {"CONSOLE_MOUSE_SELECTION", "CONSOLE_SELECTION_NOT_EMPTY"},
              !.anchor = coordBufferPos,
              !.rect = [Left |-> coordBufferPos.X, Top |-> coordBufferPos.Y,
                        Right |-> coordBufferPos.X, Bottom |-> coordBufferPos.Y],
              !.useAlternate = altDown]

\* Viewport::Clamp of the buffer size: each coordinate is brought into the buffer
ViewportClamp(pos) == [X |-> Clamp(pos.X, 0, BufW - 1), Y |-> Clamp(pos.Y, 0, BufH - 1)]

\* Viewport::Clamp throws for a viewport that is not valid
ViewportIsValid == BufW > 0 /\ BufH > 0

\* SCREEN_INFORMATION::MakeCursorVisible: the viewport scrolls to hold the position
MakeCursorVisible(c, pos) == [c EXCEPT !.viewport = SetViewportOrigin(SnapOrigin(c.viewport, pos))]

\* the rectangle between the anchor and a position, each axis on its own
RectFromAnchor(anchor, pos) ==
    [Left |-> IF pos.X <= anchor.X THEN pos.X ELSE anchor.X,
     Right |-> IF pos.X <= anchor.X THEN anchor.X ELSE pos.X,
     Top |-> IF pos.Y <= anchor.Y THEN pos.Y ELSE anchor.Y,
     Bottom |-> IF pos.Y <= anchor.Y THEN anchor.Y ELSE pos.Y]

\* the position is not clamped
ExtendSelection_NoClamp(w, coordBufferPos) ==
    LET s0 == [w.s EXCEPT !.allowMouseDrag = TRUE]
        pos == coordBufferPos
    IN  IF ~ViewportIsValid THEN [s |-> s0, c |-> w.c]
        ELSE IF ~IsAreaSelected(s0) /\ IsMouseInitiatedSelection(s0) THEN [s |-> s0, c |-> w.c]
        ELSE LET s1 == IF ~IsAreaSelected(s0)
                       THEN ShowSelection([s0 EXCEPT !.flags = @ \cup {"CONSOLE_SELECTION_NOT_EMPTY"},
                                                     !.rect = RectFromAnchor(s0.anchor, s0.anchor)])
                       ELSE s0
             IN  [s |-> [s1 EXCEPT !.rect = RectFromAnchor(s1.anchor, pos)],
                  c |-> MakeCursorVisible(w.c, pos)]

\* the position reached becomes the anchor
ExtendSelection_MovesAnchor(w, coordBufferPos) ==
    LET s0 == [w.s EXCEPT !.allowMouseDrag = TRUE]
        pos == ViewportClamp(coordBufferPos)
    IN  IF ~ViewportIsValid THEN [s |-> s0, c |-> w.c]
        ELSE IF ~IsAreaSelected(s0) /\ IsMouseInitiatedSelection(s0) THEN [s |-> s0, c |-> w.c]
        ELSE LET s1 == IF ~IsAreaSelected(s0)
                       THEN ShowSelection([s0 EXCEPT !.flags = @ \cup {"CONSOLE_SELECTION_NOT_EMPTY"},
                                                     !.rect = RectFromAnchor(s0.anchor, s0.anchor)])
                       ELSE s0
             IN  [s |-> [s1 EXCEPT !.rect = RectFromAnchor(s1.anchor, pos), !.anchor = pos],
                  c |-> MakeCursorVisible(w.c, pos)]

\* Selection::ExtendSelection on w = [s: the selection, c: the screen]: mouse drag is
\* allowed again; the position is clamped to the buffer (a throwing Clamp ends the
\* call); a selection without an area is left alone if the mouse started it, and
\* otherwise becomes the 1x1 rectangle at the anchor and is shown; then the rectangle
\* is recomputed between the anchor and the position
ExtendSelection(w, coordBufferPos) ==
    LET s0 == [w.s EXCEPT !.allowMouseDrag = TRUE]
        pos == ViewportClamp(coordBufferPos)
    IN  IF ~ViewportIsValid THEN [s |-> s0, c |-> w.c]
        ELSE IF ~IsAreaSelected(s0) /\ IsMouseInitiatedSelection(s0) THEN [s |-> s0, c |-> w.c]
        ELSE LET s1 == IF ~IsAreaSelected(s0)
                       THEN ShowSelection([s0 EXCEPT !.flags = @ \cup {"CONSOLE_SELECTION_NOT_EMPTY"},
                                                     !.rect = RectFromAnchor(s0.anchor, s0.anchor)])
                       ELSE s0
             IN  [s |-> [s1 EXCEPT !.rect = RectFromAnchor(s1.anchor, pos)],
                  c |-> MakeCursorVisible(w.c, pos)]

\* Selection::_CancelMouseSelection and _CancelMarkSelection; leaving mark mode puts
\* the text cursor back where it was
_CancelMouseSelection(w) == [w EXCEPT !.s = [HideSelection(w.s) EXCEPT !.selecting = FALSE]]

_CancelMarkSelection(w) ==
    LET hidden == IF IsAreaSelected(w.s) THEN HideSelection(w.s) ELSE w.s
    IN  [s |-> [hidden EXCEPT !.selecting = FALSE],
         c |-> [w.c EXCEPT !.cursorPos = w.s.savedCursorPosition]]

\* a cancelled mouse selection stays in selecting state
ClearSelection_MouseStaysSelecting(w) ==
    IF IsInSelectingState(w.s)
    THEN LET cancelled == IF IsMouseInitiatedSelection(w.s) THEN [w EXCEPT !.s = HideSelection(w.s)]
                          ELSE _CancelMarkSelection(w)
         IN  [cancelled EXCEPT !.s.flags = {}, !.s.useAlternate = FALSE]
    ELSE w

\* Selection::ClearSelection: a selection in progress is cancelled, its flags and the
\* alternate selection are reset
ClearSelection(w) ==
    IF IsInSelectingState(w.s)
    THEN LET cancelled == IF IsMouseInitiatedSelection(w.s) THEN _CancelMouseSelection(w)
                          ELSE _CancelMarkSelection(w)
         IN  [cancelled EXCEPT !.s.flags = {}, !.s.useAlternate = FALSE]
    ELSE w

\* Selection::InitializeMarkSelection: any selection is cleared; selecting state with
\* no flag; the cursor is saved and its position becomes the anchor
InitializeMarkSelection(w) ==
    LET cleared == ClearSelection(w)
    IN  [cleared EXCEPT !.s.selecting = TRUE,
                        !.s.flags = {},
                        !.s.savedCursorPosition = cleared.c.cursorPos,
                        !.s.anchor = cleared.c.cursorPos]

\* Selection::IsLineSelection: line selection unless the alternate selection swaps it
IsLineSelection(s) == s.lineSelection # s.useAlternate

\* TextBuffer::GetTextRects: one inclusive rectangle per row between two positions;
\* in block mode every row spans the columns between the two, in line mode the first
\* row starts at the upper position, the last row ends at the lower position and the
\* rows between span the full width
GetTextRects(start, end, blockSelection) ==
    LET startFirst == start.Y < end.Y \/ (start.Y = end.Y /\ start.X <= end.X)
        higher == IF startFirst THEN start ELSE end
        lower == IF startFirst THEN end ELSE start
        BlockRow(row) == [Left |-> IF start.X <= end.X THEN start.X ELSE end.X, Top |-> row,
                          Right |-> IF start.X <= end.X THEN end.X ELSE start.X, Bottom |-> row]
        LineRow(row) == [Left |-> IF row = higher.Y THEN higher.X ELSE 0, Top |-> row,
                         Right |-> IF row = lower.Y THEN lower.X ELSE BufW - 1, Bottom |-> row]
    IN  [i \in 1..(lower.Y - higher.Y + 1) |->
            IF blockSelection THEN BlockRow(higher.Y + i - 1) ELSE LineRow(higher.Y + i - 1)]

\* Selection::GetSelectionRects: nothing for a selection that is not visible; else the
\* rows between the anchor and the corner of the rectangle opposite to it
GetSelectionRects(s) ==
    IF ~s.visible THEN <<>>
    ELSE LET endSelectionAnchor ==
                 [X |-> IF s.anchor.X = s.rect.Left THEN s.rect.Right ELSE s.rect.Left,
                  Y |-> IF s.anchor.Y = s.rect.Top THEN s.rect.Bottom ELSE s.rect.Top]
         IN  GetTextRects(s.anchor, endSelectionAnchor, ~IsLineSelection(s))

\* Selection::SelectNewRegion: the selection is cleared, started at coordStart, shown
\* and extended to coordEnd
SelectNewRegion(w, coordStart, coordEnd, altDown) ==
    LET cleared == ClearSelection(w)
        started == [cleared EXCEPT !.s = ShowSelection(InitializeMouseSelection(cleared.s, coordStart, altDown))]
    IN  ExtendSelection(started, coordEnd)

\* only the anchor is replaced
AdjustSelection_AnchorOnly(w, coordSelectionStart, coordSelectionEnd) ==
    [w EXCEPT !.s.anchor = coordSelectionStart, !.s.allowMouseDrag = FALSE]

\* Selection::AdjustSelection: the anchor is replaced, the selection is extended to
\* the end given and mouse drag is not allowed
AdjustSelection(w, coordSelectionStart, coordSelectionEnd) ==
    LET extended == ExtendSelection([w EXCEPT !.s.anchor = coordSelectionStart], coordSelectionEnd)
    IN  [extended EXCEPT !.s.allowMouseDrag = FALSE]

\* Utils::s_CompareCoords: positions compared in reading order
CompareCoords(a, b) == IF a.Y = b.Y THEN a.X - b.X ELSE (a.Y - b.Y) * BufW

\* Selection::s_IsWithinBoundaries: the position is from start to end in reading order
IsWithinBoundaries(pos, start, end) == CompareCoords(pos, start) >= 0 /\ CompareCoords(pos, end) <= 0

\* Utils::s_GetOppositeCorner: the corner of the rectangle across from the one given
GetOppositeCorner(rect, corner) ==
    [X |-> IF rect.Left = corner.X THEN rect.Right ELSE rect.Left,
     Y |-> IF rect.Top = corner.Y THEN rect.Bottom ELSE rect.Top]

\* Viewport::IncrementInBounds: the next cell in reading order, the last cell staying
IncrementInBounds(pos) ==
    IF pos.X < BufW - 1 THEN [pos EXCEPT !.X = @ + 1]
    ELSE IF pos.Y < BufH - 1 THEN [X |-> 0, Y |-> pos.Y + 1]
    ELSE pos

\* what s_GetInputLineBoundaries can report: no input line, or its first and last cell
NoInputArea == [has |-> FALSE, start |-> [X |-> 0, Y |-> 0], end |-> [X |-> 0, Y |-> 0]]
InputAreas == <<NoInputArea,
                [has |-> TRUE, start |-> [X |-> 0, Y |-> 0], end |-> [X |-> 1, Y |-> 0]],
                [has |-> TRUE, start |-> [X |-> 1, Y |-> BufH - 1], end |-> [X |-> BufW - 1, Y |-> BufH - 1]]>>

\* what GetValidAreaBoundaries can report: from the first cell to the last cell with text
ValidAreas == <<[start |-> [X |-> 0, Y |-> 0], end |-> [X |-> 1, Y |-> 0]],
                [start |-> [X |-> 0, Y |-> 0], end |-> [X |-> BufW - 1, Y |-> BufH - 1]]>>

\* Selection::SelectAll: with no input line the valid area is selected; with an input
\* line and no selection, the input line if the cursor is in it or one cell after it,
\* else the valid area; with an input line and a selection, the input line if the
\* selection is inside it and is not all of it, else the valid area. A box selection
\* spans the full width. The region is selected anew and the viewport is put back
SelectAll(w, input, valid, altDown) ==
    LET fOldSelectionExisted == IsAreaSelected(w.s)
        coordOldAnchorOpposite == GetOppositeCorner(w.s.rect, w.s.anchor)
        coordOneAfterEnd == IncrementInBounds(input.end)
        fIsOldSelWithinInput == /\ IsWithinBoundaries(w.s.anchor, input.start, input.end)
                                /\ IsWithinBoundaries(coordOldAnchorOpposite, input.start, input.end)
        fAllInputSelected ==
            \/ CompareCoords(input.start, w.s.anchor) = 0 /\ CompareCoords(input.end, coordOldAnchorOpposite) = 0
            \/ CompareCoords(input.start, coordOldAnchorOpposite) = 0 /\ CompareCoords(input.end, w.s.anchor) = 0
        inputOnly == IF ~input.has THEN FALSE
                     ELSE IF ~fOldSelectionExisted
                     THEN \/ IsWithinBoundaries(w.c.cursorPos, input.start, input.end)
                          \/ IsWithinBoundaries(w.c.cursorPos, coordOneAfterEnd, coordOneAfterEnd)
                     ELSE fIsOldSelWithinInput /\ ~fAllInputSelected
        chosen == IF inputOnly THEN [start |-> input.start, end |-> input.end] ELSE valid
        coordNewSelStart == IF IsLineSelection(w.s) THEN chosen.start ELSE [chosen.start EXCEPT !.X = 0]
        coordNewSelEnd == IF IsLineSelection(w.s) THEN chosen.end ELSE [chosen.end EXCEPT !.X = BufW - 1]
        selected == SelectNewRegion(w, coordNewSelStart, coordNewSelEnd, altDown)
    IN  [selected EXCEPT !.c.viewport = w.c.viewport]

\* the selection routine op(n, m) ran and left w; rep tells that it repeats the call
\* before it
SelectionCalled(op, arg, n, m, subs, w) ==
    /\ sel' = w.s
    /\ con' = w.c
    /\ last' = [op |-> op, arg |-> arg, n |-> n, m |-> m, ret |-> TRUE, hr |-> "", out |-> 0,
                calls |-> <<>>, subs |-> subs,
                rep |-> (last.op = op /\ last.arg = arg /\ last.n = n /\ last.m = m)]
    /\ UNCHANGED <<term, terminated, colorTable, termColors, hwnd, render, screen, tbuf, parser, func, uia>>

Do_InitializeMouseSelection(Alt) ==
    \E x \in SelCoordsX, y \in SelCoordsY, altDown \in Alt :
        SelectionCalled("InitializeMouseSelection", BoolStr(altDown), x, y, <<>>,
                        [s |-> InitializeMouseSelection(sel, [X |-> x, Y |-> y], altDown), c |-> con])

Do_InitializeMarkSelection ==
    SelectionCalled("InitializeMarkSelection", "", 0, 0, <<"ClearSelection">>, InitializeMarkSelection([s |-> sel, c |-> con]))

\* a selection in progress is extended
Do_ExtendSelection ==
    \E x \in SelCoordsX, y \in SelCoordsY :
        /\ IsInSelectingState(sel)
        /\ SelectionCalled("ExtendSelection", "", x, y, <<>>,
                           ExtendSelection([s |-> sel, c |-> con], [X |-> x, Y |-> y]))

\* the end of the new region is the first cell or the last cell of the buffer
RegionEnds == {"first", "last"}
RegionEnd(name) == IF name = "first" THEN [X |-> 0, Y |-> 0] ELSE [X |-> BufW - 1, Y |-> BufH - 1]

Do_SelectNewRegion(Alt) ==
    \E x \in SelCoordsX, y \in SelCoordsY, end \in RegionEnds, altDown \in Alt :
        SelectionCalled("SelectNewRegion", end, x, y,
                        <<"ClearSelection", "InitializeMouseSelection", "ShowSelection", "ExtendSelection">>,
                        SelectNewRegion([s |-> sel, c |-> con], [X |-> x, Y |-> y], RegionEnd(end), altDown))

\* both ends of a selection in progress are replaced
Do_AdjustSelection ==
    \E x \in SelCoordsX, y \in SelCoordsY, end \in RegionEnds :
        /\ IsInSelectingState(sel)
        /\ SelectionCalled("AdjustSelection", end, x, y, <<"ExtendSelection">>,
                           AdjustSelection([s |-> sel, c |-> con], [X |-> x, Y |-> y], RegionEnd(end)))

Do_SelectAll(Alt) ==
    \E i \in DOMAIN InputAreas, v \in DOMAIN ValidAreas, altDown \in Alt :
        SelectionCalled("SelectAll", BoolStr(altDown), i, v, <<"SelectNewRegion">>,
                        SelectAll([s |-> sel, c |-> con], InputAreas[i], ValidAreas[v], altDown))

Do_ShowSelection ==
    SelectionCalled("ShowSelection", "", 0, 0, <<>>, [s |-> ShowSelection(sel), c |-> con])

Do_GetSelectionRects ==
    /\ last' = [op |-> "GetSelectionRects", arg |-> "", n |-> 0, m |-> 0, ret |-> TRUE, hr |-> "",
                out |-> GetSelectionRects(sel), calls |-> <<>>, subs |-> <<>>, rep |-> FALSE]
    /\ UNCHANGED <<term, terminated, con, colorTable, termColors, sel, hwnd, render, screen, tbuf, parser, func, uia>>

Do_ClearSelection ==
    SelectionCalled("ClearSelection", "", 0, 0, <<>>, ClearSelection([s |-> sel, c |-> con]))

-----------------------------------------------------------------------------
(* HwndTerminal: the window that hosts a Terminal, its renderer and its mouse input *)

\* pixel size of a character cell once the font has been resolved
FontW == 8
FontH == 8

\* an empty std::optional<til::point>, and one holding a point
NoPoint == [has |-> FALSE, x |-> 0, y |-> 0]
SomePoint(x, y) == [has |-> TRUE, x |-> x, y |-> y]

\* the selection of the Terminal: none, or from anchor to end (cells), expanded by mode
NoSelection == [active |-> FALSE, mode |-> "Cell", anchor |-> <<0, 0>>, end |-> <<0, 0>>]

\* HwndTerminal::HwndTerminal: the window exists; no terminal, renderer or engine yet;
\* the font has no width until the renderer resolves it
InitHwnd == [object |-> "constructed",
             window |-> "alive",
             terminal |-> "null",
             buffer |-> "none",
             renderer |-> "null",
             thread |-> "none",
             engineInRenderer |-> "none",
             renderEngine |-> "null",
             font |-> [w |-> 0, h |-> 14],
             selection |-> NoSelection,
             blockSelection |-> FALSE,
             multiClickCounter |-> 0,
             sinceLastMouseClickTimestamp |-> 0,
             lastMouseClickPos |-> NoPoint,
             singleClickTouchdownPos |-> NoPoint,
             cursorOn |-> TRUE,
             cursorVisible |-> TRUE,
             blinkingAllowed |-> TRUE,
             cursorStyle |-> "BlinkingBlock",
             viewTop |-> 0,
             theme |-> "none",
             size |-> "initial"]

\* a run of an entry point of HwndTerminal: the state, the events so far, whether the
\* write lock is held, whether an exception is in flight
HRun(h) == [h |-> h, ev |-> <<>>, held |-> FALSE, thrown |-> FALSE]

\* an event of kind e ("lock", "unlock", "mutate", "io", "life") is recorded with the
\* lock state at that moment
Note(r, e, what) ==
    IF r.thrown THEN r ELSE [r EXCEPT !.ev = Append(@, [e |-> e, what |-> what, held |-> r.held])]

\* Terminal::LockForWriting, and the end of the scope of the lock it returned, which
\* is reached on return and on unwinding alike
LockForWriting(r) == IF r.thrown THEN r ELSE [Note(r, "lock", "LockForWriting") EXCEPT !.held = TRUE]

EndOfLockScope(r) ==
    IF ~r.held THEN r
    ELSE [r EXCEPT !.ev = Append(@, [e |-> "unlock", what |-> "~unique_lock", held |-> TRUE]), !.held = FALSE]

\* a step that changes the state unless an exception is in flight
Then(r, h2) == IF r.thrown THEN r ELSE [r EXCEPT !.h = h2]

\* a call that throws when throws is TRUE
MayThrow(r, throws) == IF r.thrown THEN r ELSE [r EXCEPT !.thrown = throws]

\* HwndTerminal::_UpdateFont: under the write lock the renderer resolves the font
_UpdateFont(r) ==
    LET locked == LockForWriting(r)
        changed == Note(Then(locked, [locked.h EXCEPT !.font = [w |-> FontW, h |-> FontH]]),
                        "mutate", "TriggerFontChange")
    IN  EndOfLockScope(changed)

\* where HwndTerminal::Initialize can stop
InitOutcomes == {"ok", "thread_init_fails", "sethwnd_fails", "enable_fails", "narrow_throws",
                 "setwindowsize_fails"}

\* HwndTerminal::Initialize: terminal, render thread and renderer are made and the
\* thread is started; the engine is made, enabled and added to the renderer; the font
\* and the window size are set; only then the engine is kept, the buffer created and
\* painting enabled. A failure returns at once and the local engine is destroyed.
Initialize(r, o) ==
    LET made == Note(Then(r, [r.h EXCEPT !.terminal = "alive", !.renderer = "alive", !.thread = "created"]),
                     "life", "make Terminal, RenderThread, Renderer")
        started == Note(Then(made, [made.h EXCEPT !.thread = "running"]), "life", "RenderThread::Initialize")
        added == Note(Then(started, [started.h EXCEPT !.engineInRenderer = "alive"]), "life", "AddRenderEngine")
        fontSet == _UpdateFont(added)
        engineLost == Note(Then(fontSet, [fontSet.h EXCEPT !.engineInRenderer = "dangling"]), "life", "~DxEngine")
        kept == Note(Then(fontSet, [fontSet.h EXCEPT !.renderEngine = "alive", !.buffer = "alive"]),
                     "life", "Terminal::Create")
        painting == Note(Then(kept, [kept.h EXCEPT !.thread = "painting"]), "life", "EnablePainting")
    IN  CASE o = "thread_init_fails" -> [r |-> made, hr |-> "E_FAIL"]
          [] o \in {"sethwnd_fails", "enable_fails"} -> [r |-> started, hr |-> "E_FAIL"]
          [] o = "narrow_throws" -> [r |-> [engineLost EXCEPT !.thrown = TRUE], hr |-> "E_FAIL"]
          [] o = "setwindowsize_fails" -> [r |-> engineLost, hr |-> "E_FAIL"]
          [] OTHER -> [r |-> painting, hr |-> "S_OK"]

\* the double-click time, in milliseconds
MultiClickTime == 500

\* clicks counted before the model stops counting
MaxClicks == 7

\* integer division that truncates toward zero, as C++ does
TruncDiv(a, b) == IF a >= 0 THEN a \div b ELSE -((-a) \div b)

\* til::point / til::size: the cell of a pixel position
CellOf(x, y, font) == <<TruncDiv(x, font.w), TruncDiv(y, font.h)>>

\* Terminal: the selection operations
Terminal_ClearSelection(h) == [h EXCEPT !.selection = NoSelection]

Terminal_SetSelectionAnchor(h, cell) ==
    [h EXCEPT !.selection = [active |-> TRUE, mode |-> "Cell", anchor |-> cell, end |-> cell]]

Terminal_SetSelectionEnd(h, cell) ==
    IF h.selection.active THEN [h EXCEPT !.selection.end = cell] ELSE h

Terminal_MultiClickSelection(h, cell, expansionMode) ==
    [h EXCEPT !.selection = [active |-> TRUE, mode |-> expansionMode, anchor |-> cell, end |-> cell]]

\* HwndTerminal::_NumberOfClicks at delta milliseconds after _lastMouseClickTimestamp
_NumberOfClicks(h, point, delta) ==
    IF point # h.lastMouseClickPos \/ delta > MultiClickTime
    THEN [h EXCEPT !.multiClickCounter = 1]
    ELSE [h EXCEPT !.multiClickCounter = @ + 1]

\* the second click taken for the third and the third for the second
MultiClickMapper_Swapped(clickCount) ==
    IF clickCount = 1 THEN 1 ELSE IF clickCount % 2 = 0 THEN 3 ELSE 2

\* the click count folded into 1..3
MultiClickMapper(clickCount) ==
    IF clickCount > 3 THEN ((clickCount + 3 - 1) % 3) + 1 ELSE clickCount

\* elapsed times are told apart up to one past the double-click time
Elapsed(t) == IF t > MultiClickTime THEN MultiClickTime + 1 ELSE t

\* HwndTerminal::_StartSelection for a press at pixel (x, y), dt milliseconds after the
\* click before: under the write lock the click is counted; a third click selects the
\* line and a second the word; any other clears the selection, records the touchdown
\* point and remembers time and place of the click
_StartSelection(r, x, y, dt, altPressed, o) ==
    LET point == SomePoint(x, y)
        delta == Elapsed(r.h.sinceLastMouseClickTimestamp + dt)
        locked == Note(LockForWriting(r), "query", "GetKeyState")
        block == Note(Then(locked, [locked.h EXCEPT !.blockSelection = altPressed]), "mutate", "SetBlockSelection")
        counted == Then(block, [_NumberOfClicks(block.h, point, delta) EXCEPT !.sinceLastMouseClickTimestamp = delta])
        mapped == MultiClickMapper(counted.h.multiClickCounter)
        divided == MayThrow(counted, counted.h.font.w = 0 \/ counted.h.font.h = 0)
        selected ==
            IF mapped = 3
            THEN Note(Then(divided, Terminal_MultiClickSelection(divided.h, CellOf(x, y, divided.h.font), "Line")),
                      "mutate", "MultiClickSelection")
            ELSE IF mapped = 2
            THEN Note(Then(divided, Terminal_MultiClickSelection(divided.h, CellOf(x, y, divided.h.font), "Word")),
                      "mutate", "MultiClickSelection")
            ELSE Then(Note(Then(counted, Terminal_ClearSelection(counted.h)), "mutate", "ClearSelection"),
                      [Terminal_ClearSelection(counted.h) EXCEPT !.singleClickTouchdownPos = point,
                                                                 !.sinceLastMouseClickTimestamp = 0,
                                                                 !.lastMouseClickPos = point])
        triggered == MayThrow(Note(selected, "mutate", "TriggerSelection"), o = "throw")
        done == EndOfLockScope(triggered)
    IN  [r |-> [done EXCEPT !.thrown = FALSE], hr |-> IF done.thrown THEN "E_FAIL" ELSE "S_OK",
         clickCount |-> counted.h.multiClickCounter]

\* the square of the distance between two pixel positions, times 16, is compared with
\* the square of the smaller font dimension: distance >= min(width, height) / 4
FarEnough(x, y, touchdown, font) ==
    16 * (((x - touchdown.x) * (x - touchdown.x)) + ((y - touchdown.y) * (y - touchdown.y)))
        >= (IF font.w < font.h THEN font.w ELSE font.h) * (IF font.w < font.h THEN font.w ELSE font.h)

\* HwndTerminal::_MoveSelection for a drag to pixel (x, y): under the write lock, a
\* font without area is refused; a drag far enough from the touchdown point anchors the
\* selection there; the selection ends at the cell of the position
_MoveSelection(r, x, y, o) ==
    LET locked == LockForWriting(r)
        noArea == locked.h.font.w * locked.h.font.h = 0
        touchdown == locked.h.singleClickTouchdownPos
        anchored ==
            IF touchdown.has /\ FarEnough(x, y, touchdown, locked.h.font)
            THEN Note(Then(locked, [Terminal_SetSelectionAnchor(locked.h, CellOf(touchdown.x, touchdown.y, locked.h.font))
                                        EXCEPT !.singleClickTouchdownPos = NoPoint]),
                      "mutate", "SetSelectionAnchor")
            ELSE locked
        ended == Note(Then(anchored, Terminal_SetSelectionEnd(anchored.h, CellOf(x, y, anchored.h.font))),
                      "mutate", "SetSelectionEnd")
        triggered == MayThrow(Note(ended, "mutate", "TriggerSelection"), o = "throw")
        done == EndOfLockScope(IF noArea THEN locked ELSE triggered)
    IN  [r |-> [done EXCEPT !.thrown = FALSE],
         hr |-> IF noArea THEN "E_NOT_VALID_STATE" ELSE IF done.thrown THEN "E_FAIL" ELSE "S_OK",
         clickCount |-> 0]

\* HwndTerminal::_ClearSelection: under the write lock the selection of the Terminal
\* is cleared and the renderer told; an exception is logged
_ClearSelection(r, o) ==
    LET locked == LockForWriting(r)
        cleared == Note(Then(locked, Terminal_ClearSelection(locked.h)), "mutate", "ClearSelection")
        triggered == MayThrow(Note(cleared, "mutate", "TriggerSelection"), o = "throw")
        done == EndOfLockScope(triggered)
    IN  [r |-> [done EXCEPT !.thrown = FALSE], hr |-> IF done.thrown THEN "E_FAIL" ELSE "S_OK", clickCount |-> 0]

\* WM_LBUTTONUP: the touchdown point is forgotten and the mouse capture released
LButtonUp(r) ==
    [r |-> Note(Then(r, [r.h EXCEPT !.singleClickTouchdownPos = NoPoint]), "io", "ReleaseCapture"),
     hr |-> "S_OK", clickCount |-> 0]

\* the entry point op(n, m) of HwndTerminal ran dt milliseconds after the click before,
\* with result res
HwndCalled(op, arg, n, m, dt, res) ==
    /\ hwnd.object = "constructed"
    /\ hwnd' = res.r.h
    /\ last' = [op |-> op, arg |-> arg, n |-> n, m |-> m, ret |-> (res.hr = "S_OK"), hr |-> res.hr,
                out |-> res.clickCount, calls |-> res.r.ev, subs |-> <<>>,
                dt |-> dt, held |-> res.r.held, thrown |-> res.r.thrown]
    /\ UNCHANGED <<term, terminated, con, colorTable, termColors, sel, render, screen, tbuf, parser, func, uia>>

\* the mouse and the exported functions reach a terminal that has been initialized
\* and not torn down
Usable(h) == h.terminal = "alive" /\ h.renderer = "alive" /\ h.renderEngine = "alive"

Do_Initialize(O) ==
    \E o \in O :
        /\ hwnd.terminal = "null"
        /\ LET res == Initialize(HRun(hwnd), o)
           IN  HwndCalled("Initialize", o, 0, 0, 0, [r |-> res.r, hr |-> res.hr, clickCount |-> 0])

Do_StartSelection(Xs, Ys, Dts, Alt, O) ==
    \E x \in Xs, y \in Ys, dt \in Dts, altPressed \in Alt, o \in O :
        /\ Usable(hwnd)
        /\ hwnd.multiClickCounter < MaxClicks
        /\ HwndCalled("_StartSelection", o, x, y, dt, _StartSelection(HRun(hwnd), x, y, dt, altPressed, o))

Do_MoveSelection(Xs, Ys, O) ==
    \E x \in Xs, y \in Ys, o \in O :
        /\ Usable(hwnd)
        /\ HwndCalled("_MoveSelection", o, x, y, 0, _MoveSelection(HRun(hwnd), x, y, o))

Do_HwndClearSelection(O) ==
    \E o \in O :
        /\ Usable(hwnd)
        /\ HwndCalled("_ClearSelection", o, 0, 0, 0, _ClearSelection(HRun(hwnd), o))

Do_LButtonUp ==
    /\ Usable(hwnd)
    /\ HwndCalled("WM_LBUTTONUP", "", 0, 0, 0, LButtonUp(HRun(hwnd)))

\* Terminal::Write, Terminal::UserScrollViewport and Terminal::SetCursorOn take the
\* write lock themselves for the change they make
Terminal_Write(r) ==
    EndOfLockScope(Note(LockForWriting(r), "mutate", "Write"))

Terminal_UserScrollViewport(r, viewTop) ==
    LET locked == LockForWriting(r)
    IN  EndOfLockScope(Note(Then(locked, [locked.h EXCEPT !.viewTop = viewTop]), "mutate", "UserScrollViewport"))

Terminal_SetCursorOn(r, isOn) ==
    LET locked == LockForWriting(r)
    IN  EndOfLockScope(Note(Then(locked, [locked.h EXCEPT !.cursorOn = isOn]), "mutate", "SetCursorOn"))

\* where HwndTerminal::Refresh can stop
RefreshOutcomes == {"ok", "setwindowsize_fails", "narrow_throws", "resize_fails"}

\* HwndTerminal::Refresh: under the write lock the selection is cleared, the engine
\* and the terminal take the new size
Refresh(r, o) ==
    LET locked == LockForWriting(r)
        cleared == Note(Then(locked, Terminal_ClearSelection(locked.h)), "mutate", "ClearSelection")
        sized == Note(cleared, "mutate", "SetWindowSize")
        redrawn == MayThrow(Note(sized, "mutate", "TriggerRedrawAll"), o = "narrow_throws")
        resized == Note(Then(redrawn, [redrawn.h EXCEPT !.size = "resized"]), "mutate", "UserResize")
    IN  CASE o = "setwindowsize_fails" -> [r |-> EndOfLockScope(sized), hr |-> "E_FAIL"]
          [] o = "resize_fails" -> [r |-> EndOfLockScope(Note(redrawn, "mutate", "UserResize")), hr |-> "E_FAIL"]
          [] OTHER -> [r |-> EndOfLockScope(resized), hr |-> IF o = "narrow_throws" THEN "E_FAIL" ELSE "S_OK"]

\* TerminalTriggerResize: the window is moved, then the terminal refreshed
TerminalTriggerResize(r, o) == Refresh(Note(r, "io", "SetWindowPos"), o)

\* HwndTerminal::SendOutput
SendOutput(r) == Terminal_Write(r)

\* TerminalUserScroll
TerminalUserScroll(r, viewTop) == Terminal_UserScrollViewport(r, viewTop)

\* DoSrvPrivateShowCursor, on the cursor h: the visibility follows the argument
DoSrvPrivateShowCursor(h, show) == [h EXCEPT !.cursorVisible = show]

\* DoSrvPrivateAllowCursorBlinking, on the cursor h: blinking is allowed or not as
\* asked, and the cursor is turned On either way
DoSrvPrivateAllowCursorBlinking(h, fEnable) == [h EXCEPT !.blinkingAllowed = fEnable, !.cursorOn = TRUE]

\* TerminalBlinkCursor: a cursor that may not blink and is visible is left alone;
\* otherwise the cursor is switched to the opposite of what it is
TerminalBlinkCursor(r, blinkingAllowed, visible) ==
    LET asked == Note(Note(r, "query", "IsCursorBlinkingAllowed"), "query", "IsCursorVisible")
    IN  IF ~blinkingAllowed /\ visible THEN asked
        ELSE Terminal_SetCursorOn(Note(asked, "query", "IsCursorOn"), ~asked.h.cursorOn)

\* TerminalSetCursorVisible
TerminalSetCursorVisible(r, visible) == Terminal_SetCursorOn(r, visible)

CursorStyles == {"BlinkingBlock", "SteadyBar"}

\* TerminalSetTheme: the colors are set under the write lock; after it is released
\* the cursor style is set, the font updated and the terminal refreshed
TerminalSetTheme(r, theme, cursorStyle, o) ==
    LET locked == LockForWriting(r)
        colored == Note(Note(Note(Then(locked, [locked.h EXCEPT !.theme = theme]),
                                  "mutate", "SetDefaultForeground / SetDefaultBackground"),
                             "mutate", "SetSelectionBackground"),
                        "mutate", "SetColorTableEntry")
        unlocked == EndOfLockScope(colored)
        styled == Note(Then(unlocked, [unlocked.h EXCEPT !.cursorStyle = cursorStyle]), "mutate", "SetCursorStyle")
        fontSet == Note(_UpdateFont(styled), "query", "GetWindowRect")
    IN  Refresh(fontSet, o).r

\* HwndTerminal::_PasteTextFromClipboard: the clipboard is opened and read and the
\* text handed to the write callback
_PasteTextFromClipboard(r, o) ==
    LET opened == Note(r, "io", "OpenClipboard")
        got == Note(opened, "io", "GetClipboardData")
    IN  CASE o = "clipboard_fails" -> opened
          [] o = "no_data" -> Note(got, "io", "CloseClipboard")
          [] OTHER -> Note(Note(got, "io", "_WriteTextToConnection"), "io", "CloseClipboard")

RButtonOutcomes == {"ok", "clipboard_fails", "no_data"}

\* WM_RBUTTONDOWN: an active selection is copied to the clipboard and cleared;
\* without one the clipboard is pasted
RButtonDown(r, o) ==
    IF r.h.selection.active
    THEN LET read == Note(r, "query", "RetrieveSelectedTextFromBuffer")
             copied == Note(read, "io", "_CopyTextToSystemClipboard")
         IN  _ClearSelection(copied, "ok").r
    ELSE _PasteTextFromClipboard(r, o)

Chars == {"a", "A", " ", "ESC", "TAB"}

\* the character with the other case
OtherCase(ch) == IF ch = "a" THEN "A" ELSE IF ch = "A" THEN "a" ELSE ch

\* the input encoder folds the case of a character sent with Alt and Shift
TerminalInput_HandleChar_ShiftFoldsCase(ch, alt, shift) ==
    IF alt /\ ch = " " THEN [handled |-> FALSE, bytes |-> <<>>]
    ELSE IF alt THEN [handled |-> TRUE, bytes |-> <<"ESC", IF shift THEN OtherCase(ch) ELSE ch>>]
    ELSE [handled |-> TRUE, bytes |-> <<ch>>]

\* the input encoder for a character event: Alt+Space is left to the system; any
\* other character with Alt is sent after an escape; without Alt the character is
\* sent as it is. Shift has already chosen the case of the character.
TerminalInput_HandleChar(ch, alt, shift) ==
    IF alt /\ ch = " " THEN [handled |-> FALSE, bytes |-> <<>>]
    ELSE IF alt THEN [handled |-> TRUE, bytes |-> <<"ESC", ch>>]
    ELSE [handled |-> TRUE, bytes |-> <<ch>>]

\* Terminal::SendCharEvent: what the encoder makes of the event goes to the write
\* input callback, which Initialize set to _WriteTextToConnection
Terminal_SendCharEvent(r, ch, alt, shift) ==
    LET enc == TerminalInput_HandleChar(ch, alt, shift)
    IN  IF r.thrown \/ ~enc.handled THEN r
        ELSE [r EXCEPT !.ev = Append(@, [e |-> "io", what |-> "_WriteTextToConnection", held |-> r.held,
                                         bytes |-> enc.bytes])]

\* HwndTerminal::_SendCharEvent: an active selection is cleared first and Escape ends
\* there; Tab is dropped; any other character goes to the terminal with the state of
\* the modifier keys
_SendCharEvent(r, ch, alt, shift) ==
    LET cleared == IF r.h.selection.active THEN _ClearSelection(r, "ok").r ELSE r
    IN  IF (r.h.selection.active /\ ch = "ESC") \/ ch = "TAB" THEN cleared
        ELSE Terminal_SendCharEvent(Note(cleared, "query", "GetKeyState"), ch, alt, shift)

\* the bytes a routine handed to the write callback in the calls it made
RECURSIVE Sent(_)
Sent(calls) ==
    IF calls = <<>> THEN <<>>
    ELSE IF "bytes" \in DOMAIN Head(calls) THEN Head(calls).bytes \o Sent(Tail(calls))
    ELSE Sent(Tail(calls))

\* the routine returned nothing
Returned(r) == [r |-> [r EXCEPT !.thrown = FALSE], hr |-> "S_OK", clickCount |-> 0]

Do_TriggerResize(O) ==
    \E o \in O :
        /\ Usable(hwnd)
        /\ LET res == TerminalTriggerResize(HRun(hwnd), o)
           IN  HwndCalled("TerminalTriggerResize", o, 0, 0, 0,
                          [r |-> [res.r EXCEPT !.thrown = FALSE], hr |-> res.hr, clickCount |-> 0])

Do_SendOutput ==
    /\ Usable(hwnd)
    /\ HwndCalled("TerminalSendOutput", "", 0, 0, 0, Returned(SendOutput(HRun(hwnd))))

Do_UserScroll(Tops) ==
    \E viewTop \in Tops :
        /\ Usable(hwnd)
        /\ HwndCalled("TerminalUserScroll", "", viewTop, 0, 0, Returned(TerminalUserScroll(HRun(hwnd), viewTop)))

Do_ShowCursor ==
    \E show \in BOOLEAN :
        /\ Usable(hwnd)
        /\ HwndCalled("DoSrvPrivateShowCursor", BoolStr(show), 0, 0, 0,
                      Returned(Then(HRun(hwnd), DoSrvPrivateShowCursor(hwnd, show))))

Do_AllowCursorBlinking ==
    \E fEnable \in BOOLEAN :
        /\ Usable(hwnd)
        /\ HwndCalled("DoSrvPrivateAllowCursorBlinking", BoolStr(fEnable), 0, 0, 0,
                      Returned(Then(HRun(hwnd), DoSrvPrivateAllowCursorBlinking(hwnd, fEnable))))

\* a tick of the blink timer: TerminalBlinkCursor reads the cursor as it is
Do_BlinkTimer ==
    /\ Usable(hwnd)
    /\ HwndCalled("TerminalBlinkCursor", BoolStr(hwnd.blinkingAllowed), 0, 0, 0,
                  Returned(TerminalBlinkCursor(HRun(hwnd), hwnd.blinkingAllowed, hwnd.cursorVisible)))

Do_BlinkCursor ==
    \E blinkingAllowed \in BOOLEAN, visible \in BOOLEAN :
        /\ Usable(hwnd)
        /\ HwndCalled("TerminalBlinkCursor", BoolStr(blinkingAllowed), 0, 0, 0,
                      Returned(TerminalBlinkCursor(HRun(hwnd), blinkingAllowed, visible)))

Do_SetCursorVisible ==
    \E visible \in BOOLEAN :
        /\ Usable(hwnd)
        /\ HwndCalled("TerminalSetCursorVisible", BoolStr(visible), 0, 0, 0,
                      Returned(TerminalSetCursorVisible(HRun(hwnd), visible)))

Do_SetTheme(Themes, O) ==
    \E theme \in Themes, cursorStyle \in CursorStyles, o \in O :
        /\ Usable(hwnd)
        /\ HwndCalled("TerminalSetTheme", cursorStyle, 0, 0, 0,
                      Returned(TerminalSetTheme(HRun(hwnd), theme, cursorStyle, o)))

Do_RButtonDown(O) ==
    \E o \in O :
        /\ Usable(hwnd)
        /\ HwndCalled("WM_RBUTTONDOWN", o, 0, 0, 0, Returned(RButtonDown(HRun(hwnd), o)))

Do_SendCharEvent(Cs, Alts, Shifts) ==
    \E ch \in Cs, alt \in Alts, shift \in Shifts :
        /\ Usable(hwnd)
        /\ HwndCalled("TerminalSendCharEvent", ch, IF alt THEN 1 ELSE 0, IF shift THEN 1 ELSE 0, 0,
                      Returned(_SendCharEvent(HRun(hwnd), ch, alt, shift)))

\* Renderer::~Renderer: the renderer owns its thread, which ends with it
DestroyRenderer(r) ==
    Note(Then(r, [r.h EXCEPT !.renderer = "null",
                             !.thread = IF @ = "none" THEN "none" ELSE "stopped",
                             !.engineInRenderer = "none"]),
         "life", "~Renderer")

\* the terminal is destroyed while its renderer lives on
DestroyMembers_TerminalFirst(r) ==
    LET terminalGone == IF r.h.terminal = "null" THEN r
                        ELSE Note(Then(r, [r.h EXCEPT !.terminal = "null",
                                                      !.buffer = IF @ = "none" THEN "none" ELSE "destroyed"]),
                                  "life", "~Terminal")
    IN  IF terminalGone.h.renderer = "null" THEN terminalGone ELSE DestroyRenderer(terminalGone)

\* the members are destroyed in the reverse of the order they are declared in:
\* _renderEngine, _renderer, _terminal and with it the buffer
DestroyMembers(r) ==
    LET engineGone == IF r.h.renderEngine = "null" THEN r
                      ELSE Note(Then(r, [r.h EXCEPT !.renderEngine = "null"]), "life", "~DxEngine")
        rendererGone == IF engineGone.h.renderer = "null" THEN engineGone ELSE DestroyRenderer(engineGone)
    IN  IF rendererGone.h.terminal = "null" THEN rendererGone
        ELSE Note(Then(rendererGone, [rendererGone.h EXCEPT !.terminal = "null",
                                                            !.buffer = IF @ = "none" THEN "none" ELSE "destroyed"]),
                  "life", "~Terminal")

\* the window is destroyed while the object still owns it
TeardownPass_WindowKept(r) ==
    LET engineTaken == Then(r, [r.h EXCEPT !.renderEngine = "null"])
        rendererDown ==
            IF r.h.renderer = "null" THEN engineTaken
            ELSE DestroyRenderer(Note(Then(engineTaken, [engineTaken.h EXCEPT !.thread = "stopped"]),
                                      "life", "TriggerTeardown"))
        renderingDown == IF r.h.renderEngine = "null" THEN r ELSE Note(rendererDown, "life", "~DxEngine")
    IN  IF renderingDown.h.window # "alive" THEN renderingDown
        ELSE Note(renderingDown, "io", "DestroyWindow")

\* one pass through HwndTerminal::Teardown, up to the call of DestroyWindow: if there
\* is an engine it is taken from the object, and if there is a renderer it is taken
\* too, torn down and destroyed, then the engine; a window still owned is released
\* and destroyed
TeardownPass(r) ==
    LET engineTaken == Then(r, [r.h EXCEPT !.renderEngine = "null"])
        rendererDown ==
            IF r.h.renderer = "null" THEN engineTaken
            ELSE DestroyRenderer(Note(Then(engineTaken, [engineTaken.h EXCEPT !.thread = "stopped"]),
                                      "life", "TriggerTeardown"))
        renderingDown == IF r.h.renderEngine = "null" THEN r ELSE Note(rendererDown, "life", "~DxEngine")
    IN  IF renderingDown.h.window # "alive" THEN renderingDown
        ELSE Note(Then(renderingDown, [renderingDown.h EXCEPT !.window = "destroyed"]), "io", "DestroyWindow")

\* HwndTerminal::Teardown: DestroyWindow raises WM_DESTROY before it returns, and the
\* handler runs Teardown again inside the first call
Teardown(r) ==
    LET down == TeardownPass(r)
    IN  IF \E i \in DOMAIN down.ev : down.ev[i].what = "DestroyWindow" /\ i > Len(r.ev)
        THEN TeardownPass(Note(down, "io", "WM_DESTROY"))
        ELSE down

\* WM_DESTROY: the window is being destroyed; the object lets go of it and tears down
WmDestroy(r) == Teardown(Then(r, [r.h EXCEPT !.window = "destroyed"]))

\* HwndTerminal::~HwndTerminal: Teardown, then the members
Destructor(r) ==
    LET down == DestroyMembers(Teardown(r))
    IN  Then(down, [down.h EXCEPT !.object = "destroyed"])

Do_Teardown ==
    HwndCalled("Teardown", "", 0, 0, 0, Returned(Teardown(HRun(hwnd))))

Do_WmDestroy ==
    /\ hwnd.window = "alive"
    /\ HwndCalled("WM_DESTROY", "", 0, 0, 0, Returned(WmDestroy(HRun(hwnd))))

Do_Destructor ==
    HwndCalled("~HwndTerminal", "", 0, 0, 0, Returned(Destructor(HRun(hwnd))))

-----------------------------------------------------------------------------
(* The console lock in the API routines of the console host *)

INPUT_MODES == {"ENABLE_LINE_INPUT", "ENABLE_PROCESSED_INPUT", "ENABLE_ECHO_INPUT", "ENABLE_WINDOW_INPUT",
                "ENABLE_MOUSE_INPUT", "ENABLE_VIRTUAL_TERMINAL_INPUT"}
PRIVATE_MODES == {"ENABLE_INSERT_MODE", "ENABLE_QUICK_EDIT_MODE", "ENABLE_AUTO_POSITION", "ENABLE_EXTENDED_FLAGS"}

\* LockConsole, and the scope_exit that calls UnlockConsole: it runs when its scope is
\* left by a return and by an exception alike
LockConsole(r) == IF r.thrown THEN r ELSE [Note(r, "lock", "LockConsole") EXCEPT !.held = TRUE]

\* the scope_exit runs on return only
UnlockConsole_OnReturnOnly(r) ==
    IF ~r.held \/ r.thrown THEN r
    ELSE [r EXCEPT !.ev = Append(@, [e |-> "unlock", what |-> "UnlockConsole", held |-> TRUE]), !.held = FALSE]

UnlockConsole(r) ==
    IF ~r.held THEN r
    ELSE [r EXCEPT !.ev = Append(@, [e |-> "unlock", what |-> "UnlockConsole", held |-> TRUE]), !.held = FALSE]

\* WI_UpdateFlag
UpdateFlag(flags, flag, on) == IF on THEN flags \cup {flag} ELSE flags \ {flag}

\* the mode is validated before anything is stored
SetConsoleInputModeImpl_ValidateFirst(r, mode, o) ==
    LET locked == LockConsole(r)
        refused == \/ mode \ (INPUT_MODES \cup PRIVATE_MODES) # {}
                   \/ "ENABLE_ECHO_INPUT" \in mode /\ "ENABLE_LINE_INPUT" \notin mode
        moded == Note(Then(locked, [locked.h EXCEPT !.InputMode = mode \ PRIVATE_MODES]), "mutate", "InputMode")
    IN  IF refused THEN [r |-> UnlockConsole(locked), hr |-> "E_INVALIDARG"]
        ELSE [r |-> UnlockConsole(moded), hr |-> "S_OK"]

\* ApiRoutines::SetConsoleInputModeImpl: under the console lock the private flags of
\* the console and the insert mode follow the mode, the input buffer takes the mode
\* without the private modes, and only then an invalid mode is refused
SetConsoleInputModeImpl(r, mode, o) ==
    LET locked == LockConsole(r)
        c == locked.h
        private == (mode \cap PRIVATE_MODES) # {}
        newFlags == IF private
                    THEN UpdateFlag(UpdateFlag(c.Flags \cup {"CONSOLE_USE_PRIVATE_FLAGS"}, "CONSOLE_QUICK_EDIT_MODE",
                                               "ENABLE_QUICK_EDIT_MODE" \in mode),
                                    "CONSOLE_AUTO_POSITION", "ENABLE_AUTO_POSITION" \in mode)
                    ELSE c.Flags \ {"CONSOLE_USE_PRIVATE_FLAGS"}
        newInsert == IF private THEN "ENABLE_INSERT_MODE" \in mode ELSE c.insertMode
        flagged == Note(Then(locked, [c EXCEPT !.Flags = newFlags, !.insertMode = newInsert]), "mutate", "gci.Flags")
        dbMode == IF newInsert # c.insertMode
                  THEN MayThrow(Note(flagged, "mutate", "SetCursorDBMode"), o = "throw")
                  ELSE flagged
        moded == Note(Then(dbMode, [dbMode.h EXCEPT !.InputMode = mode \ PRIVATE_MODES]), "mutate", "InputMode")
        done == UnlockConsole(moded)
    IN  [r |-> [done EXCEPT !.thrown = FALSE],
         hr |-> IF done.thrown THEN "E_FAIL"
                ELSE IF mode \ (INPUT_MODES \cup PRIVATE_MODES) # {} THEN "E_INVALIDARG"
                ELSE IF "ENABLE_ECHO_INPUT" \in mode /\ "ENABLE_LINE_INPUT" \notin mode THEN "E_INVALIDARG"
                ELSE "S_OK"]

\* the console lock is kept until the routine returns
SetConsoleDisplayModeImpl_LockedToTheEnd(r, flags, active, window, o) ==
    LET locked == Note(LockConsole(r), "query", "GetBufferSize")
        full == "CONSOLE_FULLSCREEN_MODE" \in flags
        set == IF window
               THEN MayThrow(Note(Then(locked, [locked.h EXCEPT !.fullscreen = full]), "io", "SetIsFullscreen"),
                             o = "throw")
               ELSE locked
        done == UnlockConsole(set)
    IN  IF ~active THEN [r |-> UnlockConsole(locked), hr |-> "E_INVALIDARG"]
        ELSE IF flags \cap {"CONSOLE_FULLSCREEN_MODE", "CONSOLE_WINDOWED_MODE"} = {}
        THEN [r |-> UnlockConsole(locked), hr |-> "E_INVALIDARG"]
        ELSE [r |-> [done EXCEPT !.thrown = FALSE], hr |-> IF done.thrown THEN "E_FAIL" ELSE "S_OK"]

\* ApiRoutines::SetConsoleDisplayModeImpl: the buffer size is read under the console
\* lock and a buffer that is not the active one is refused; the lock is released
\* before the window is asked to change, which sends a message to its own procedure
SetConsoleDisplayModeImpl(r, flags, active, window, o) ==
    LET locked == Note(LockConsole(r), "query", "GetBufferSize")
        released == UnlockConsole(locked)
        full == "CONSOLE_FULLSCREEN_MODE" \in flags
        set == IF window
               THEN MayThrow(Note(Then(released, [released.h EXCEPT !.fullscreen = full]), "io", "SetIsFullscreen"),
                             o = "throw")
               ELSE released
    IN  IF ~active THEN [r |-> released, hr |-> "E_INVALIDARG"]
        ELSE IF flags \cap {"CONSOLE_FULLSCREEN_MODE", "CONSOLE_WINDOWED_MODE"} = {}
        THEN [r |-> released, hr |-> "E_INVALIDARG"]
        ELSE [r |-> [set EXCEPT !.thrown = FALSE], hr |-> IF set.thrown THEN "E_FAIL" ELSE "S_OK"]

\* the API routine op ran and returned res
ConsoleApiCalled(op, arg, mode, res) ==
    /\ con' = res.r.h
    /\ last' = [op |-> op, arg |-> arg, n |-> 0, m |-> 0, ret |-> (res.hr = "S_OK"), hr |-> res.hr,
                out |-> 0, calls |-> res.r.ev, subs |-> <<>>,
                dt |-> 0, held |-> res.r.held, thrown |-> res.r.thrown, mode |-> mode]
    /\ UNCHANGED <<term, terminated, colorTable, termColors, sel, hwnd, render, screen, tbuf, parser, func, uia>>

Do_SetConsoleInputMode(Modes, O) ==
    \E mode \in Modes, o \in O :
        ConsoleApiCalled("SetConsoleInputModeImpl", o, mode, SetConsoleInputModeImpl(HRun(con), mode, o))

Do_SetConsoleDisplayMode(Flags, O) ==
    \E flags \in Flags, active \in BOOLEAN, window \in BOOLEAN, o \in O :
        ConsoleApiCalled("SetConsoleDisplayModeImpl", o, flags,
                         SetConsoleDisplayModeImpl(HRun(con), flags, active, window, o))

-----------------------------------------------------------------------------
(* A Renderer and its RenderThread, made and destroyed as in VtIoTests *)

\* how many renderers are made one after the other
MaxRenders == 3

\* nothing made yet: the paint-enabled event is clear, the redraw event is clear,
\* the paint-completed event is set
InitRender == [round |-> 0,
               dx |-> FALSE,
               pc |-> "start",
               thread |-> "none",
               paintEnabled |-> FALSE,
               hEvent |-> FALSE,
               paintCompleted |-> TRUE,
               keepRunning |-> TRUE,
               lateWait |-> FALSE]

\* RenderThread::EnablePainting
EnablePainting(rt) == [rt EXCEPT !.paintEnabled = TRUE]

\* RenderThread::~RenderThread up to its wait: the loop is told to stop and the redraw
\* event is signalled, with painting left disabled
RenderThreadDtor_PaintingLeftDisabled(rt) ==
    [rt EXCEPT !.keepRunning = FALSE, !.hEvent = TRUE, !.pc = "joining"]

\* RenderThread::~RenderThread up to its wait: the loop is told to stop, painting is
\* enabled so that a thread waiting for it goes on, and the redraw event is signalled
RenderThreadDtor(rt) ==
    [EnablePainting(rt) EXCEPT !.keepRunning = FALSE, !.hEvent = TRUE, !.pc = "joining"]

\* what the two threads leave alone
RenderFrame == <<term, terminated, con, colorTable, termColors, sel, hwnd, screen, tbuf, parser, func, uia, last>>

\* the test makes the data, the thread and the renderer; the second test adds an engine
Render_Make(withDx) ==
    /\ render.pc \in {"start", "done"}
    /\ render.round < MaxRenders
    /\ render' = [InitRender EXCEPT !.round = render.round + 1, !.dx = withDx, !.pc = "made"]
    /\ UNCHANGED RenderFrame

\* RenderThread::Initialize: the thread is created and starts when it is scheduled
Render_Initialize ==
    /\ render.pc = "made"
    /\ render' = [render EXCEPT !.thread = "top", !.pc = IF render.dx THEN "initialized" ELSE "engineAdded"]
    /\ UNCHANGED RenderFrame

\* Renderer::AddRenderEngine
Render_AddRenderEngine ==
    /\ render.pc = "initialized"
    /\ render' = [render EXCEPT !.pc = "engineAdded"]
    /\ UNCHANGED RenderFrame

Render_EnablePainting ==
    /\ render.pc = "engineAdded"
    /\ render' = [EnablePainting(render) EXCEPT !.pc = "enabled"]
    /\ UNCHANGED RenderFrame

\* Renderer::TriggerTeardown: painting is disabled, then a frame being painted is
\* waited for
Render_TeardownDisable ==
    /\ render.pc = "enabled"
    /\ render' = [render EXCEPT !.paintEnabled = FALSE, !.pc = "disabled"]
    /\ UNCHANGED RenderFrame

Render_TeardownWait ==
    /\ render.pc = "disabled"
    /\ render.paintCompleted
    /\ render' = [render EXCEPT !.pc = "tornDown"]
    /\ UNCHANGED RenderFrame

\* pRenderer.reset(): the renderer destroys its thread object, which waits for the
\* thread to end
Render_Reset ==
    /\ render.pc = "tornDown"
    /\ render' = RenderThreadDtor(render)
    /\ UNCHANGED RenderFrame

Render_Join ==
    /\ render.pc = "joining"
    /\ render.thread = "exited"
    /\ render' = [render EXCEPT !.pc = "done"]
    /\ UNCHANGED RenderFrame

\* the render thread: while it is to keep running it waits until painting is enabled,
\* waits for the redraw event, paints a frame and says so
Thread_Loop ==
    /\ render.thread = "top"
    /\ render' = [render EXCEPT !.thread = IF render.keepRunning THEN "waitEnabled" ELSE "exited",
                                !.lateWait = @ \/ (render.keepRunning /\ render.pc \in {"disabled", "tornDown"})]
    /\ UNCHANGED RenderFrame

Thread_PaintEnabled ==
    /\ render.thread = "waitEnabled"
    /\ render.paintEnabled
    /\ render' = [render EXCEPT !.thread = "waitEvent"]
    /\ UNCHANGED RenderFrame

Thread_Redraw ==
    /\ render.thread = "waitEvent"
    /\ render.hEvent
    /\ render' = [render EXCEPT !.hEvent = FALSE, !.paintCompleted = FALSE, !.thread = "paint"]
    /\ UNCHANGED RenderFrame

Thread_PaintFrame ==
    /\ render.thread = "paint"
    /\ render' = [render EXCEPT !.paintCompleted = TRUE, !.thread = "top"]
    /\ UNCHANGED RenderFrame

\* the renderer is asked to redraw while the test runs: RenderThread::NotifyPaint
Render_NotifyPaint ==
    /\ render.pc \in {"engineAdded", "enabled"}
    /\ ~render.hEvent
    /\ render' = [render EXCEPT !.hEvent = TRUE]
    /\ UNCHANGED RenderFrame

-----------------------------------------------------------------------------
(* The screen buffers of the console host: SCREEN_INFORMATION with the rows of   *)
(* its text buffer, its scroll margins and its alternate buffer                  *)

\* what a row of the text buffer holds: nothing, or one of two texts
Blank == " "
Texts == {"x", "y"}

\* the window shows BufW x BufH characters
WindowSize == [X |-> BufW, Y |-> BufH]

BlankRows(height) == [r \in 0..(height - 1) |-> Blank]

\* no main buffer is hidden behind the active one
NoMain == [has |-> FALSE]

\* a SCREEN_INFORMATION as made for a window: a blank buffer of the size of the
\* window, the cursor at home, no scroll margins, no alternate buffer
InitScreen == [size |-> WindowSize, viewTop |-> 0, rows |-> BlankRows(WindowSize.Y),
               cursor |-> [X |-> 0, Y |-> 0], margins |-> [Top |-> 0, Bottom |-> 0], main |-> NoMain]

\* the buffer that s shows, without what is hidden behind it
Buffer(s) == [size |-> s.size, viewTop |-> s.viewTop, rows |-> s.rows, cursor |-> s.cursor, margins |-> s.margins]

\* the hidden main buffer and the buffer shown
MainOf(s) == IF s.main.has THEN s.main.b ELSE Buffer(s)

\* s with its active buffer replaced by b
WithBuffer(s, b) == [s EXCEPT !.size = b.size, !.viewTop = b.viewTop, !.rows = b.rows,
                              !.cursor = b.cursor, !.margins = b.margins]

\* the viewport follows a cursor that went below it
FollowCursor(b, y) == IF y > b.viewTop + WindowSize.Y - 1 THEN y - WindowSize.Y + 1 ELSE b.viewTop

\* text written on the row of the cursor
TextBuffer_Write(b, text) == [b EXCEPT !.rows[b.cursor.Y] = text]

\* Cursor::SetPosition to a position of the buffer; the viewport follows
Cursor_SetPosition(b, pos) ==
    IF pos.X >= b.size.X \/ pos.Y >= b.size.Y THEN b
    ELSE [b EXCEPT !.cursor = pos, !.viewTop = IF pos.Y < @ THEN pos.Y ELSE FollowCursor(b, pos.Y)]

\* the margins are set when the bottom is below the top; (0,0) is no margins
MarginsSet(b) == b.margins.Bottom > b.margins.Top

\* GetAbsoluteScrollMargins: the margins are kept relative to the viewport
AbsoluteMargins(b) == [Top |-> b.viewTop + b.margins.Top, Bottom |-> b.viewTop + b.margins.Bottom]

\* the whole buffer scrolls, whatever the margins are
ScrollRegion_WholeBuffer(rows, top, bottom) ==
    [r \in DOMAIN rows |-> IF (r + 1) \in DOMAIN rows THEN rows[r + 1] ELSE Blank]

\* ScrollRegion by one row up: the rows top..bottom move up by one, the top row of
\* the region is lost and the bottom row is blank
ScrollRegion(rows, top, bottom) ==
    [r \in DOMAIN rows |-> IF r < top \/ r > bottom THEN rows[r]
                           ELSE IF r < bottom THEN rows[r + 1] ELSE Blank]

\* AdjustCursorPosition with scroll margins, for a position one row below the cursor:
\* leaving the margins through the bottom scrolls the rows of the margins and keeps
\* the cursor on the bottom margin; with margins set the cursor does not leave the
\* viewport; a position below the last row scrolls the whole buffer
AdjustCursorPositionInBuffer(b, position) ==
    LET m == AbsoluteMargins(b)
        fCursorInMargins == b.cursor.Y <= m.Bottom /\ b.cursor.Y >= m.Top
        viewBottom == b.viewTop + WindowSize.Y - 1
    IN  IF MarginsSet(b) /\ fCursorInMargins /\ position.Y > m.Bottom
        THEN [b EXCEPT !.rows = ScrollRegion(@, m.Top, m.Bottom),
                       !.cursor = [X |-> position.X, Y |-> m.Bottom]]
        ELSE LET y == IF MarginsSet(b) /\ position.Y > viewBottom THEN viewBottom ELSE position.Y
             IN  IF y >= b.size.Y
                 THEN [b EXCEPT !.rows = ScrollRegion(@, 0, b.size.Y - 1),
                                !.cursor = [X |-> position.X, Y |-> b.size.Y - 1]]
                 ELSE [b EXCEPT !.cursor = [X |-> position.X, Y |-> y], !.viewTop = FollowCursor(b, y)]

\* DoSrvPrivateLineFeed on the text buffer of screenInfo
DoSrvPrivateLineFeedInBuffer(s, withReturn) ==
    LET cursorPosition == [X |-> IF withReturn THEN 0 ELSE s.cursor.X, Y |-> s.cursor.Y + 1]
    IN  [s |-> WithBuffer(s, AdjustCursorPositionInBuffer(Buffer(s), cursorPosition)), hr |-> "S_OK"]

\* SCREEN_INFORMATION::IsCursorInMargins: without margins every position is inside
IsCursorInMargins(b, cursorPosition) ==
    \/ ~MarginsSet(b)
    \/ cursorPosition.Y <= AbsoluteMargins(b).Bottom /\ cursorPosition.Y >= AbsoluteMargins(b).Top

\* DoSrvPrivateScrollRegion of the rows top..bottom to the row below top, clipped to
\* the same rows: they move down by one, the bottom row is lost and the top row is
\* blank
DoSrvPrivateScrollRegion(rows, top, bottom) ==
    [r \in DOMAIN rows |-> IF r < top \/ r > bottom THEN rows[r]
                           ELSE IF r > top THEN rows[r - 1] ELSE Blank]

\* AdjustCursorPosition for a position one row above the cursor: leaving the margins
\* through the top scrolls the rows of the margins down and keeps the cursor; else
\* the cursor moves and the viewport follows it
AdjustCursorPositionUp(b, position) ==
    LET m == AbsoluteMargins(b)
        fCursorInMargins == b.cursor.Y <= m.Bottom /\ b.cursor.Y >= m.Top
    IN  IF MarginsSet(b) /\ fCursorInMargins /\ position.Y < m.Top
        THEN [b EXCEPT !.rows = DoSrvPrivateScrollRegion(@, m.Top, m.Bottom)]
        ELSE Cursor_SetPosition(b, position)

\* the viewport is scrolled to its last row, whatever the margins are
DoSrvPrivateReverseLineFeed_WholeViewport(s) ==
    LET b == Buffer(s)
        newCursorPosition == [X |-> b.cursor.X, Y |-> b.cursor.Y - 1]
    IN  IF b.cursor.Y > b.viewTop
        THEN [s |-> WithBuffer(s, AdjustCursorPositionUp(b, newCursorPosition)), hr |-> "S_OK"]
        ELSE [s |-> [s EXCEPT !.rows = DoSrvPrivateScrollRegion(@, b.viewTop, b.viewTop + WindowSize.Y - 1)],
              hr |-> "S_OK"]

\* DoSrvPrivateReverseLineFeed: a cursor below the top row of the viewport moves up
\* by one row; on the top row, if the cursor is in the margins (or there are none),
\* the rows from the top of the viewport to its bottom, or to the bottom margin if
\* margins are set, are scrolled down by one; else nothing is done
DoSrvPrivateReverseLineFeed(s) ==
    LET b == Buffer(s)
        newCursorPosition == [X |-> b.cursor.X, Y |-> b.cursor.Y - 1]
        srScrollBottom == IF MarginsSet(b) THEN AbsoluteMargins(b).Bottom ELSE b.viewTop + WindowSize.Y - 1
    IN  IF b.cursor.Y > b.viewTop
        THEN [s |-> WithBuffer(s, AdjustCursorPositionUp(b, newCursorPosition)), hr |-> "S_OK"]
        ELSE IF IsCursorInMargins(b, b.cursor)
        THEN [s |-> [s EXCEPT !.rows = DoSrvPrivateScrollRegion(@, b.viewTop, srScrollBottom)], hr |-> "S_OK"]
        ELSE [s |-> s, hr |-> "S_OK"]

\* DoSrvPrivateSetScrollingRegion: a top below the bottom is refused; otherwise the
\* active buffer takes the top and the bottom
DoSrvPrivateSetScrollingRegion(s, scrollMargins) ==
    IF scrollMargins.Top > scrollMargins.Bottom THEN [s |-> s, hr |-> "STATUS_INVALID_PARAMETER"]
    ELSE [s |-> [s EXCEPT !.margins = [Top |-> scrollMargins.Top, Bottom |-> scrollMargins.Bottom]],
          hr |-> "S_OK"]

\* SCREEN_INFORMATION::ResizeScreenBuffer: a resize that fails returns its error and
\* leaves the buffer; one that succeeds gives the buffer the rows of the new size
\* and keeps the cursor and the viewport inside
ResizeScreenBuffer(s, size, o) ==
    IF o = "resize_fails" THEN [s |-> s, hr |-> "STATUS_NO_MEMORY"]
    ELSE [s |-> [s EXCEPT !.size = size,
                          !.rows = [r \in 0..(size.Y - 1) |-> IF r \in DOMAIN s.rows THEN s.rows[r] ELSE Blank],
                          !.cursor = [X |-> Min(@.X, size.X - 1), Y |-> Min(@.Y, size.Y - 1)],
                          !.viewTop = Min(@, size.Y - WindowSize.Y)],
          hr |-> "S_OK"]

\* the buffer is resized before the size is checked
SetConsoleScreenBufferSizeImpl_ResizeThenCheck(s, size, headless, coordMin, o) ==
    IF o = "throws" THEN [s |-> s, hr |-> "E_FAIL"]
    ELSE IF size.X <= 0 \/ size.Y <= 0 THEN [s |-> s, hr |-> "E_INVALIDARG"]
    ELSE LET resized == ResizeScreenBuffer(s, size, o)
         IN  IF size.X < WindowSize.X \/ size.Y < WindowSize.Y THEN [s |-> resized.s, hr |-> "E_INVALIDARG"]
             ELSE resized

\* ApiRoutines::SetConsoleScreenBufferSizeImpl: E_INVALIDARG for a size smaller than
\* the viewport, smaller than the smallest window when there is a window, or at the
\* end of SHORT; a size that differs from the buffer's is handed to
\* ResizeScreenBuffer, whose status is returned; an exception becomes its HRESULT
SetConsoleScreenBufferSizeImpl(s, size, headless, coordMin, o) ==
    IF o = "throws" THEN [s |-> s, hr |-> "E_FAIL"]
    ELSE IF size.X < WindowSize.X \/ size.Y < WindowSize.Y THEN [s |-> s, hr |-> "E_INVALIDARG"]
    ELSE IF ~headless /\ (size.Y < coordMin.Y \/ size.X < coordMin.X) THEN [s |-> s, hr |-> "E_INVALIDARG"]
    ELSE IF size.X = SHORT_MAX \/ size.Y = SHORT_MAX THEN [s |-> s, hr |-> "E_INVALIDARG"]
    ELSE IF size.X # s.size.X \/ size.Y # s.size.Y THEN ResizeScreenBuffer(s, size, o)
    ELSE [s |-> s, hr |-> "S_OK"]

\* a new alternate is made of the buffer shown, which takes the place of the main
UseAlternateScreenBuffer_OfActive(s) ==
    [s |-> [WithBuffer(s, Buffer(InitScreen)) EXCEPT !.main = [has |-> TRUE, b |-> Buffer(s)]], hr |-> "S_OK"]

\* SCREEN_INFORMATION::UseAlternateScreenBuffer: a blank buffer of the size of the
\* window is made for the main buffer and shown; an alternate that was shown is
\* discarded
UseAlternateScreenBuffer(s) ==
    [s |-> [WithBuffer(s, Buffer(InitScreen)) EXCEPT !.main = [has |-> TRUE, b |-> MainOf(s)]], hr |-> "S_OK"]

\* SCREEN_INFORMATION::UseMainScreenBuffer: on the alternate, the main buffer is
\* shown again and the alternate discarded; on the main buffer nothing happens
UseMainScreenBuffer(s) ==
    IF s.main.has THEN [WithBuffer(s, s.main.b) EXCEPT !.main = NoMain] ELSE s

DoSrvPrivateUseAlternateScreenBuffer(s) == UseAlternateScreenBuffer(s)

DoSrvPrivateUseMainScreenBuffer(s) == [s |-> UseMainScreenBuffer(s), hr |-> "S_OK"]

\* the routine op ran on the screen with result res
ScreenCalled(op, arg, n, m, res) ==
    /\ screen' = res.s
    /\ last' = [op |-> op, arg |-> arg, n |-> n, m |-> m, ret |-> (res.hr = "S_OK"), hr |-> res.hr,
                out |-> 0, calls |-> <<>>, subs |-> <<>>]
    /\ UNCHANGED <<term, terminated, con, colorTable, termColors, sel, hwnd, render, tbuf, parser, func, uia>>

Do_ScreenWrite(T) ==
    \E text \in T :
        ScreenCalled("TextBuffer::Write", text, 0, 0, [s |-> WithBuffer(screen, TextBuffer_Write(Buffer(screen), text)), hr |-> "S_OK"])

Do_ScreenSetCursor(Xs, Ys) ==
    \E x \in Xs, y \in Ys :
        ScreenCalled("Cursor::SetPosition", "", x, y,
                     [s |-> WithBuffer(screen, Cursor_SetPosition(Buffer(screen), [X |-> x, Y |-> y])), hr |-> "S_OK"])

Do_ScreenLineFeed ==
    \E withReturn \in BOOLEAN :
        ScreenCalled("DoSrvPrivateLineFeed", BoolStr(withReturn), 0, 0, DoSrvPrivateLineFeedInBuffer(screen, withReturn))

Do_ReverseLineFeed ==
    ScreenCalled("DoSrvPrivateReverseLineFeed", "", 0, 0, DoSrvPrivateReverseLineFeed(screen))

\* the buffer is given one row more than the window, or the rows of the window
Do_ResizeRows ==
    \E y \in {BufH, BufH + 1} :
        ScreenCalled("SetConsoleScreenBufferSizeImpl", "ok", BufW, y,
                     SetConsoleScreenBufferSizeImpl(screen, [X |-> BufW, Y |-> y], TRUE, [X |-> 1, Y |-> 1], "ok"))

Do_DoSrvPrivateSetScrollingRegion ==
    \E top \in 0..(BufH - 1), bottom \in 0..(BufH - 1) :
        ScreenCalled("DoSrvPrivateSetScrollingRegion", "", top, bottom,
                     DoSrvPrivateSetScrollingRegion(screen, [Top |-> top, Bottom |-> bottom]))

\* the sizes asked for: around the window's, and the end of SHORT
ResizeArgsX == ((BufW - 1)..(BufW + 1)) \cup {SHORT_MAX}
ResizeArgsY == ((BufH - 1)..(BufH + 1)) \cup {SHORT_MAX}

\* no window, or a window with its smallest size in characters
Windows == {[headless |-> TRUE, coordMin |-> [X |-> 1, Y |-> 1]],
            [headless |-> FALSE, coordMin |-> [X |-> 1, Y |-> 1]],
            [headless |-> FALSE, coordMin |-> [X |-> BufW + 1, Y |-> 1]]}

Do_SetConsoleScreenBufferSize ==
    \E x \in ResizeArgsX, y \in ResizeArgsY, w \in Windows, o \in {"ok", "throws", "resize_fails"} :
        ScreenCalled("SetConsoleScreenBufferSizeImpl", o, x, y,
                     SetConsoleScreenBufferSizeImpl(screen, [X |-> x, Y |-> y], w.headless, w.coordMin, o))

Do_UseAlternateScreenBuffer ==
    ScreenCalled("DoSrvPrivateUseAlternateScreenBuffer", "", 0, 0, DoSrvPrivateUseAlternateScreenBuffer(screen))

Do_UseMainScreenBuffer ==
    ScreenCalled("DoSrvPrivateUseMainScreenBuffer", "", 0, 0, DoSrvPrivateUseMainScreenBuffer(screen))

-----------------------------------------------------------------------------
(* Printing: TerminalDispatch::Print and PrintString on the text buffer of a     *)
(* Terminal                                                                      *)

\* the longest string printed in one call
MaxLen == 3

\* the Terminal has two rows of BufW cells
PrintSize == [X |-> BufW, Y |-> 2]

PrintChars == {"a", "b"}

\* the strings of up to MaxLen printable characters
Inputs == UNION {[1..n -> PrintChars] : n \in 0..MaxLen}

BlankCells == [y \in 0..(PrintSize.Y - 1) |-> [x \in 0..(PrintSize.X - 1) |-> Blank]]

InitTbuf == [cells |-> BlankCells, cursor |-> [X |-> 0, Y |-> 0]]

\* one character written at the cursor: the cursor moves right, from the last column
\* to the start of the next row, and from the last row the buffer scrolls by one row
WriteCell(b, wch) ==
    LET written == [b.cells EXCEPT ![b.cursor.Y][b.cursor.X] = wch]
    IN  IF b.cursor.X + 1 < PrintSize.X
        THEN [cells |-> written, cursor |-> [X |-> b.cursor.X + 1, Y |-> b.cursor.Y]]
        ELSE IF b.cursor.Y + 1 < PrintSize.Y
        THEN [cells |-> written, cursor |-> [X |-> 0, Y |-> b.cursor.Y + 1]]
        ELSE [cells |-> [y \in DOMAIN written |->
                            IF (y + 1) \in DOMAIN written THEN written[y + 1] ELSE BlankCells[y]],
              cursor |-> [X |-> 0, Y |-> b.cursor.Y]]

\* Terminal::PrintString (ITerminalApi): the characters of the string are written
\* one after the other from the cursor
RECURSIVE Terminal_PrintString(_, _)
Terminal_PrintString(b, string) ==
    IF string = <<>> THEN b
    ELSE Terminal_PrintString(WriteCell(b, Head(string)), Tail(string))

\* a view of no character is handed to PrintString
PrintChar_EmptyView(b, wchPrintable) == Terminal_PrintString(b, <<>>)

\* TerminalDispatch::Print: a view of the one character is handed to PrintString
PrintChar(b, wchPrintable) == Terminal_PrintString(b, <<wchPrintable>>)

\* TerminalDispatch::PrintString with its string: the string is handed to PrintString
PrintStringOf(b, string) == Terminal_PrintString(b, string)

\* a string fed one character at a time
RECURSIVE FeedEach(_, _)
FeedEach(b, string) ==
    IF string = <<>> THEN b
    ELSE FeedEach(PrintChar(b, Head(string)), Tail(string))

\* a print operation ran on the text buffer
Printed(op, string, b) ==
    /\ tbuf' = b
    /\ last' = [op |-> op, arg |-> "", n |-> Len(string), m |-> 0, ret |-> TRUE, hr |-> "", out |-> 0,
                calls |-> <<>>, subs |-> <<>>, str |-> string]
    /\ UNCHANGED <<term, terminated, con, colorTable, termColors, sel, hwnd, render, screen, parser, func, uia>>

Do_PrintChar ==
    \E wch \in PrintChars : Printed("Print", <<wch>>, PrintChar(tbuf, wch))

Do_PrintStringOf ==
    \E string \in Inputs : Printed("PrintString", string, PrintStringOf(tbuf, string))

-----------------------------------------------------------------------------
(* The VT parser: the state machine and the ParserTracing of tracing.cpp that    *)
(* accumulates the characters of the sequence being parsed                       *)

\* ParserTracing::ParserTracing: the sequence is empty; the parser starts in Ground
InitParser == [state |-> "Ground", sequenceTrace |-> <<>>, event |-> ""]

\* the characters fed: escape, the CSI introducer, a parameter digit, a private
\* marker, a final character, and the cancel control
ParserChars == {"ESC", "[", "1", "<", "A", "CAN"}

\* ParserTracing::AddSequenceTrace
AddSequenceTrace(p, wch) == [p EXCEPT !.sequenceTrace = Append(@, wch)]

\* ParserTracing::TraceCharInput: the character joins the sequence
TraceCharInput(p, wch) == AddSequenceTrace(p, wch)

\* ParserTracing::ClearSequenceTrace
ClearSequenceTrace(p) == [p EXCEPT !.sequenceTrace = <<>>]

\* the sequence is cleared only after a dispatch that succeeded
DispatchSequenceTrace_KeptOnFailure(p, fSuccess) ==
    IF fSuccess THEN ClearSequenceTrace([p EXCEPT !.event = "StateMachine_Sequence_OK"])
    ELSE [p EXCEPT !.event = "StateMachine_Sequence_FAIL"]

\* ParserTracing::DispatchSequenceTrace: the sequence is logged as OK or FAIL and
\* cleared in both cases
DispatchSequenceTrace(p, fSuccess) ==
    ClearSequenceTrace([p EXCEPT !.event = IF fSuccess THEN "StateMachine_Sequence_OK"
                                           ELSE "StateMachine_Sequence_FAIL"])

\* the state machine enters Ground
EnterGround(p) == [p EXCEPT !.state = "Ground"]

\* the state machine enters Escape: a new sequence begins
EnterEscape(p) == ClearSequenceTrace([p EXCEPT !.state = "Escape"])

\* a sequence is complete: the engine dispatches it, the outcome is traced, and the
\* state machine goes back to Ground
ActionDispatch(p, action, fSuccess) ==
    [p |-> EnterGround(DispatchSequenceTrace(p, fSuccess)), action |-> action,
     seq |-> p.sequenceTrace, ret |-> fSuccess]

\* a step of the state machine that dispatches nothing
ActionOther(p, action) == [p |-> p, action |-> action, seq |-> <<>>, ret |-> TRUE]

\* StateMachine::ProcessCharacter: the character is traced; CAN executes and goes to
\* Ground from anywhere; ESC begins a sequence; otherwise the state decides
ProcessCharacter(p0, wch, fSuccess) ==
    LET p == TraceCharInput(p0, wch)
    IN  IF wch = "CAN" THEN ActionOther(EnterGround(p), "Execute")
        ELSE IF wch = "ESC" THEN ActionOther(EnterEscape(p), "None")
        ELSE IF p.state = "Ground" THEN ActionOther(p, "Print")
        ELSE IF p.state = "Escape"
        THEN IF wch = "[" THEN ActionOther([p EXCEPT !.state = "CsiEntry"], "None")
             ELSE ActionDispatch(p, "EscDispatch", fSuccess)
        ELSE IF p.state = "CsiEntry"
        THEN IF wch = "1" THEN ActionOther([p EXCEPT !.state = "CsiParam"], "Param")
             ELSE IF wch = "<" THEN ActionOther([p EXCEPT !.state = "CsiParam"], "Collect")
             ELSE ActionDispatch(p, "CsiDispatch", fSuccess)
        ELSE IF p.state = "CsiParam"
        THEN IF wch = "1" THEN ActionOther(p, "Param")
             ELSE IF wch = "<" THEN ActionOther([p EXCEPT !.state = "CsiIgnore"], "Ignore")
             ELSE ActionDispatch(p, "CsiDispatch", fSuccess)
        ELSE \* CsiIgnore: the rest of the sequence is swallowed up to its final character
             IF wch \in {"1", "<"} THEN ActionOther(p, "Ignore")
             ELSE ActionOther(EnterGround(p), "Ignore")

\* text is fed to the parser as long as what it accumulates stays within the bound
Do_ProcessCharacter ==
    \E wch \in ParserChars, fSuccess \in BOOLEAN :
        LET res == ProcessCharacter(parser, wch, fSuccess)
        IN  /\ Len(res.p.sequenceTrace) <= MaxLen + 1
            /\ parser' = res.p
            /\ last' = [op |-> "ProcessCharacter", arg |-> wch, n |-> 0, m |-> 0, ret |-> res.ret,
                        hr |-> "", out |-> 0, calls |-> <<>>, subs |-> <<res.action>>, str |-> res.seq]
            /\ UNCHANGED <<term, terminated, con, colorTable, termColors, sel, hwnd, render, screen, tbuf, func, uia>>

-----------------------------------------------------------------------------
(* ThrottledFunc<Args...>: Run from several threads, the dispatcher that starts  *)
(* the timer, and the tick of the timer that calls the function                  *)

\* the number of Run calls made in a behaviour
MaxRuns == 3

\* the threads that call Run and ModifyPending
Threads == 1..2

\* the arguments passed to Run
ArgVals == 1..2

\* std::optional without a value
NoArgs == [has |-> FALSE, val |-> 0]

\* a ThrottledFunc as constructed: nothing pending, nothing queued on the dispatcher,
\* no timer; ran and invoked are the Run calls and the invocations of the function so
\* far, periods the number of times arguments became pending
InitFunc == [pendingRunArgs |-> NoArgs, queue |-> 0, timers |-> 0,
             ui |-> [pc |-> "idle", args |-> NoArgs, after |-> 0],
             pc |-> [t \in Threads |-> "idle"],
             ran |-> <<>>, invoked |-> <<>>, periods |-> 0, thrown |-> FALSE]

\* Run starts a timer whether or not arguments were pending
Run_Guarded_AlwaysDispatch(f, t, args) ==
    LET hadValue == f.pendingRunArgs.has
    IN  [f EXCEPT !.pendingRunArgs = [has |-> TRUE, val |-> args],
                  !.pc[t] = "dispatch",
                  !.ran = Append(@, args),
                  !.periods = IF hadValue THEN @ ELSE @ + 1]

\* Run keeps the arguments that were pending
Run_Guarded_KeepsFirst(f, t, args) ==
    LET hadValue == f.pendingRunArgs.has
    IN  [f EXCEPT !.pendingRunArgs = IF hadValue THEN @ ELSE [has |-> TRUE, val |-> args],
                  !.pc[t] = IF hadValue THEN "idle" ELSE "dispatch",
                  !.ran = Append(@, args),
                  !.periods = IF hadValue THEN @ ELSE @ + 1]

\* Run, the block under std::lock_guard: the arguments replace what was pending; the
\* call returns if arguments were pending already and goes on to the dispatcher if not
Run_Guarded(f, t, args) ==
    LET hadValue == f.pendingRunArgs.has
    IN  [f EXCEPT !.pendingRunArgs = [has |-> TRUE, val |-> args],
                  !.pc[t] = IF hadValue THEN "idle" ELSE "dispatch",
                  !.ran = Append(@, args),
                  !.periods = IF hadValue THEN @ ELSE @ + 1]

\* ModifyPending: under the lock, f is applied to the pending arguments if there are any
ModifyPending(f, g) ==
    IF f.pendingRunArgs.has THEN [f EXCEPT !.pendingRunArgs.val = g[@]] ELSE f

\* the variables a ThrottledFunc leaves alone
ThrottleFrame == <<term, terminated, con, colorTable, termColors, sel, hwnd, render, screen, tbuf, parser, uia>>

\* what a step of the ThrottledFunc leaves in last
FuncOp(op, n) ==
    [op |-> op, arg |-> "", n |-> n, m |-> 0, ret |-> TRUE, hr |-> "", out |-> 0, calls |-> <<>>, subs |-> <<>>]

\* a thread calls Run(args) and passes the guarded block
Func_Run ==
    /\ Len(func.ran) < MaxRuns
    /\ \E t \in Threads, args \in ArgVals :
          /\ func.pc[t] = "idle"
          /\ func' = Run_Guarded(func, t, args)
          /\ last' = FuncOp("Run", args)
    /\ UNCHANGED ThrottleFrame

\* the thread hands the lambda to the dispatcher: _dispatcher.RunAsync
Func_RunAsync ==
    /\ \E t \in Threads :
          /\ func.pc[t] = "dispatch"
          /\ func' = [func EXCEPT !.pc[t] = "idle", !.queue = @ + 1]
    /\ last' = FuncOp("RunAsync", 0)
    /\ UNCHANGED ThrottleFrame

\* a thread calls ModifyPending with a function that sets the arguments
Func_ModifyPending ==
    /\ \E t \in Threads, v \in ArgVals :
          /\ func.pc[t] = "idle"
          /\ func' = ModifyPending(func, [a \in ArgVals |-> v])
          /\ last' = FuncOp("ModifyPending", v)
    /\ UNCHANGED ThrottleFrame

\* the dispatcher runs the lambda: a DispatcherTimer is made and started
Ui_StartTimer ==
    /\ func.ui.pc = "idle" /\ func.queue > 0
    /\ func' = [func EXCEPT !.queue = @ - 1, !.timers = @ + 1]
    /\ last' = FuncOp("timer.Start", 0)
    /\ UNCHANGED ThrottleFrame

\* a timer ticks: timer.Stop()
Ui_TickStop ==
    /\ func.ui.pc = "idle" /\ func.timers > 0
    /\ func' = [func EXCEPT !.timers = @ - 1, !.ui.pc = "stopped"]
    /\ last' = FuncOp("timer.Stop", 0)
    /\ UNCHANGED ThrottleFrame

\* the tick, under the lock: _pendingRunArgs.swap(args)
Ui_TickSwap ==
    /\ func.ui.pc = "stopped"
    /\ func' = [func EXCEPT !.ui = [pc |-> "swapped", args |-> func.pendingRunArgs, after |-> Len(func.ran)],
                            !.pendingRunArgs = NoArgs]
    /\ last' = FuncOp("swap", 0)
    /\ UNCHANGED ThrottleFrame

\* the tick: std::apply(_func, args.value()), which throws if args has no value
Ui_TickApply ==
    /\ func.ui.pc = "swapped"
    /\ func' = [func EXCEPT !.ui = [pc |-> "idle", args |-> NoArgs, after |-> 0],
                            !.invoked = IF func.ui.args.has
                                        THEN Append(@, [val |-> func.ui.args.val, after |-> func.ui.after])
                                        ELSE @,
                            !.thrown = @ \/ ~func.ui.args.has]
    /\ last' = FuncOp("_func", func.ui.args.val)
    /\ UNCHANGED ThrottleFrame

\* the steps of the threads inside Run, and the steps of the dispatcher's thread
FuncThreadStep == Func_RunAsync
FuncUiStep == Ui_StartTimer \/ Ui_TickStop \/ Ui_TickSwap \/ Ui_TickApply

-----------------------------------------------------------------------------
(* The UIA provider of HwndTerminal: _GetUiaProvider called from several threads *)

\* providers made before the model stops making them
MaxMade == 3

\* how MakeAndInitialize can end
MakeOutcomes == {"ok", "fail", "throw"}

\* HwndTerminal::HwndTerminal: no provider (0), not initialized; nobody holds the
\* write lock of the Terminal. A provider is known by the number of the construction
\* that made it. Of each thread: where it is in _GetUiaProvider, whether its call
\* began after the initialization, what it returned and by which way
InitUia == [provider |-> 0,
            initialized |-> FALSE,
            made |-> 0,
            lock |-> 0,
            pc |-> [t \in Threads |-> "idle"],
            late |-> [t \in Threads |-> FALSE],
            ret |-> [t \in Threads |-> 0],
            via |-> [t \in Threads |-> "none"]]

\* the flag is not looked at again under the lock
GetUiaProvider_Locked_NoRecheck(u, t) == [u EXCEPT !.pc[t] = "make"]

\* under the write lock: a provider initialized in the meantime is returned and the
\* lock released; else the provider is made
GetUiaProvider_Locked(u, t) ==
    IF u.initialized
    THEN [u EXCEPT !.pc[t] = "done", !.ret[t] = u.provider, !.via[t] = "recheck", !.lock = 0]
    ELSE [u EXCEPT !.pc[t] = "make"]

\* MakeAndInitialize: the provider is stored when it was made and initialized; a
\* failure leaves null, and so does the handler of an exception
MakeAndInitialize(u, t, o) ==
    [u EXCEPT !.made = @ + 1,
              !.provider = IF o = "ok" THEN u.made + 1 ELSE 0,
              !.pc[t] = "mark"]

UiaFrame == <<term, terminated, con, colorTable, termColors, sel, hwnd, render, screen, tbuf, parser, func, last>>

\* a thread calls _GetUiaProvider
Uia_Call ==
    /\ \E t \in Threads :
          /\ uia.pc[t] \in {"idle", "done"}
          /\ uia' = [uia EXCEPT !.pc[t] = "readProvider", !.late[t] = uia.initialized,
                                !.ret[t] = 0, !.via[t] = "none"]
    /\ UNCHANGED UiaFrame

\* nullptr == _uiaProvider, read without the lock
Uia_ReadProvider ==
    /\ \E t \in Threads :
          /\ uia.pc[t] = "readProvider"
          /\ uia' = [uia EXCEPT !.pc[t] = IF uia.provider = 0 THEN "readInitialized" ELSE "return",
                                !.via[t] = "skip"]
    /\ UNCHANGED UiaFrame

\* !_uiaProviderInitialized, read without the lock
Uia_ReadInitialized ==
    /\ \E t \in Threads :
          /\ uia.pc[t] = "readInitialized"
          /\ uia' = [uia EXCEPT !.pc[t] = IF uia.initialized THEN "return" ELSE "lock"]
    /\ UNCHANGED UiaFrame

\* _terminal->LockForWriting(): the thread waits until the lock is free
Uia_Lock ==
    /\ \E t \in Threads :
          /\ uia.pc[t] = "lock"
          /\ uia.lock = 0
          /\ uia' = [uia EXCEPT !.pc[t] = "locked", !.lock = t]
    /\ UNCHANGED UiaFrame

\* if (_uiaProviderInitialized) return _uiaProvider.Get();
Uia_Recheck ==
    /\ \E t \in Threads :
          /\ uia.pc[t] = "locked"
          /\ uia' = GetUiaProvider_Locked(uia, t)
    /\ UNCHANGED UiaFrame

Uia_Make ==
    /\ uia.made < MaxMade
    /\ \E t \in Threads, o \in MakeOutcomes :
          /\ uia.pc[t] = "make"
          /\ uia' = MakeAndInitialize(uia, t, o)
    /\ UNCHANGED UiaFrame

\* _uiaProviderInitialized = true, and the end of the scope of the lock
Uia_Mark ==
    /\ \E t \in Threads :
          /\ uia.pc[t] = "mark"
          /\ uia' = [uia EXCEPT !.initialized = TRUE, !.lock = 0, !.pc[t] = "return", !.via[t] = "made"]
    /\ UNCHANGED UiaFrame

\* return _uiaProvider.Get(), read without the lock
Uia_Return ==
    /\ \E t \in Threads :
          /\ uia.pc[t] = "return"
          /\ uia' = [uia EXCEPT !.pc[t] = "done", !.ret[t] = uia.provider]
    /\ UNCHANGED UiaFrame

-----------------------------------------------------------------------------
(* The state after construction *)

Init ==
    /\ term = InitTerm
    /\ terminated = FALSE
    /\ con = InitCon
    /\ colorTable = InitColorTable
    /\ termColors = InitColorTable
    /\ sel = InitSel
    /\ hwnd = InitHwnd
    /\ render = InitRender
    /\ screen = InitScreen
    /\ tbuf = InitTbuf
    /\ parser = InitParser
    /\ func = InitFunc
    /\ uia = InitUia
    /\ last = NoOp

\* Resets: SoftReset and HardReset under every combination of API outcomes, from the
\* terminal states that successful operations lead to
NextReset ==
    \/ Do_SoftReset
    \/ Do_HardReset
    \/ Do_CursorPosition(1..2, {"ok"})
    \/ Do_CursorVisibility({"ok"})
    \/ Do_SetCursorKeysMode({"ok"})
    \/ Do_SetKeypadMode({"ok"})
    \/ Do_SetScreenMode({"ok"})
    \/ Do_SetGraphicsRendition({"ok"})
    \/ Do_PrintString({"ok"})
    \/ Do_LineFeed({"ok"})

SpecReset == Init /\ [][NextReset]_vars

\* DECSET / DECRST of every private mode, recognized or not
NextModes ==
    \/ Do_SetPrivateMode({"ok"})
    \/ Do_ResetPrivateMode({"ok"})

SpecModes == Init /\ [][NextModes]_vars

\* The single-call operations under every API outcome
NextDispatch ==
    \/ Do_CursorPosition(1..2, Outcomes)
    \/ Do_CursorVisibility(Outcomes)
    \/ Do_SetCursorKeysMode(Outcomes)
    \/ Do_SetKeypadMode(Outcomes)
    \/ Do_SetScreenMode(Outcomes)
    \/ Do_SetGraphicsRendition(Outcomes)
    \/ Do_EraseInDisplay(Outcomes)
    \/ Do_PrintString(Outcomes)
    \/ Do_LineFeed(Outcomes)
    \/ Do_TryDelegate(Outcomes)
    \/ Do_PlainDelegate(Outcomes)

SpecDispatch == Init /\ [][NextDispatch]_vars

TerminalCursorOps == {"CursorPosition", "CursorForward", "CursorBackward", "CursorUp",
                      "CarriageReturn", "LineFeed"}

ConsoleCursorOps == {"SetConsoleCursorPosition", "DoSrvPrivateLineFeed"}

\* The cursor operations of TerminalDispatch with arguments up to the edges of SHORT
NextTerminalCursor ==
    \/ Do_CursorPosition(SizeArgs, Outcomes)
    \/ Do_CursorForward(SizeArgs, Outcomes)
    \/ Do_CursorBackward(SizeArgs, Outcomes)
    \/ Do_CursorUp(SizeArgs, Outcomes)
    \/ Do_CarriageReturn(Outcomes)
    \/ Do_LineFeed(Outcomes)

\* The cursor routines of the console host
NextConsoleCursor ==
    \/ Do_SetConsoleCursorPosition
    \/ Do_DoSrvPrivateLineFeed

\* The Terminal and the console host are two programs: a run is a run of one of them
NextCursor ==
    \/ last.op \notin ConsoleCursorOps /\ NextTerminalCursor
    \/ last.op \notin TerminalCursorOps /\ NextConsoleCursor

SpecCursor == Init /\ [][NextCursor]_vars

TerminalColorOps == {"SetColorTableEntry", "GetColor"}

ConsoleColorOps == {"DoSrvPrivateSetColorTableEntry", "DoSrvPrivateGetColorTableEntry"}

NextTerminalColor ==
    \/ Do_SetColorTableEntry
    \/ Do_GetColor

NextConsoleColor ==
    \/ Do_DoSrvPrivateSetColorTableEntry
    \/ Do_DoSrvPrivateGetColorTableEntry

\* The color table of the Terminal, or the color table of the console host
NextColor ==
    \/ last.op \notin ConsoleColorOps /\ NextTerminalColor
    \/ last.op \notin TerminalColorOps /\ NextConsoleColor

SpecColor == Init /\ [][NextColor]_vars

\* The selection of the console host: started by the mouse or in mark mode, extended,
\* shown, read, cleared
NextConsoleSelection ==
    \/ Do_InitializeMouseSelection({FALSE, TRUE})
    \/ Do_InitializeMarkSelection
    \/ Do_ExtendSelection
    \/ Do_SelectNewRegion({FALSE, TRUE})
    \/ Do_ShowSelection
    \/ Do_GetSelectionRects
    \/ Do_ClearSelection

\* pixel positions of the mouse: two in the first cell, one in the next cell
MouseXs == {0, 1, FontW}
MouseYs == {0, FontH}

\* milliseconds between clicks: at once, within and past the double-click time
ClickGaps == {0, 300, MultiClickTime + 1}

\* The mouse on an initialized HwndTerminal: presses, drags, releases, clearing
NextMouse ==
    \/ Do_Initialize({"ok"})
    \/ Do_StartSelection(MouseXs, {0}, ClickGaps, {FALSE}, {"ok"})
    \/ Do_MoveSelection(MouseXs \cup {-1}, MouseYs, {"ok", "throw"})
    \/ Do_HwndClearSelection({"ok", "throw"})
    \/ Do_LButtonUp

SpecMouse == Init /\ [][NextMouse]_vars

ConsoleSelectionOps == {"InitializeMouseSelection", "InitializeMarkSelection", "ExtendSelection",
                        "SelectNewRegion", "ShowSelection", "GetSelectionRects", "ClearSelection"}

HwndOps == {"Initialize", "_StartSelection", "_MoveSelection", "_ClearSelection", "WM_LBUTTONUP"}

\* The selection of the console host, or the selection of a Terminal in its window
NextSelection ==
    \/ last.op \notin HwndOps /\ NextConsoleSelection
    \/ last.op \notin ConsoleSelectionOps /\ NextMouse

SpecSelection == Init /\ [][NextSelection]_vars

\* The calls that start or reshape a selection of the console host
NextAnchor ==
    \/ Do_InitializeMouseSelection({FALSE, TRUE})
    \/ Do_InitializeMarkSelection
    \/ Do_ExtendSelection
    \/ Do_AdjustSelection
    \/ Do_SelectNewRegion({FALSE, TRUE})
    \/ Do_SelectAll({FALSE, TRUE})
    \/ Do_ClearSelection

SpecAnchor == Init /\ [][NextAnchor]_vars

\* The cursor of a Terminal: shown and hidden, blinking allowed or not, the blink
\* timer, the host setting it On or Off, choosing its style and scrolling
NextBlink ==
    \/ Do_Initialize({"ok"})
    \/ Do_ShowCursor
    \/ Do_AllowCursorBlinking
    \/ Do_BlinkTimer
    \/ Do_SetCursorVisible
    \/ Do_SetTheme({"dark"}, {"ok"})
    \/ Do_UserScroll({0, 1})

SpecBlink == Init /\ [][NextBlink]_vars

\* pixel positions of a drag: the first pixel of the second cell, the pixel before it
\* in the first cell, and two further away
DragXs == {0, FontW - 1, FontW, 2 * FontW}

\* Presses, drags and releases around the border of two cells
NextDrag ==
    \/ Do_Initialize({"ok"})
    \/ Do_StartSelection({FontW}, {0}, {0, MultiClickTime + 1}, {FALSE}, {"ok"})
    \/ Do_MoveSelection(DragXs, {0}, {"ok"})
    \/ Do_HwndClearSelection({"ok"})
    \/ Do_LButtonUp

SpecDrag == Init /\ [][NextDrag]_vars

\* input modes asked for: valid ones, private ones and one the console does not know
InputModeArgs == {"ENABLE_LINE_INPUT", "ENABLE_ECHO_INPUT", "ENABLE_INSERT_MODE", "ENABLE_QUICK_EDIT_MODE",
                  "UNKNOWN_MODE"}

\* The API routines of the console host that take the console lock
NextConsoleApi ==
    \/ Do_SetConsoleInputMode(SUBSET InputModeArgs, {"ok", "throw"})
    \/ Do_SetConsoleDisplayMode(SUBSET {"CONSOLE_FULLSCREEN_MODE", "CONSOLE_WINDOWED_MODE"}, {"ok", "throw"})

\* The window of a Terminal: the mouse, the keyboard and the functions its host calls
NextHost ==
    \/ Do_Initialize({"ok"})
    \/ Do_StartSelection({0}, {0}, {0, MultiClickTime + 1}, {FALSE}, {"ok"})
    \/ Do_MoveSelection({0, FontW}, {0}, {"ok", "throw"})
    \/ Do_HwndClearSelection({"ok", "throw"})
    \/ Do_LButtonUp
    \/ Do_TriggerResize(RefreshOutcomes)
    \/ Do_SendOutput
    \/ Do_UserScroll({0, 1})
    \/ Do_BlinkCursor
    \/ Do_SetCursorVisible
    \/ Do_SetTheme({"dark"}, {"ok", "resize_fails"})
    \/ Do_RButtonDown(RButtonOutcomes)
    \/ Do_SendCharEvent({"a", "ESC", "TAB"}, {FALSE}, {FALSE})

ConsoleApiOps == {"SetConsoleInputModeImpl", "SetConsoleDisplayModeImpl"}

HostOps == HwndOps \cup {"TerminalTriggerResize", "TerminalSendOutput", "TerminalUserScroll", "TerminalBlinkCursor",
                         "TerminalSetCursorVisible", "TerminalSetTheme", "WM_RBUTTONDOWN", "TerminalSendCharEvent"}

\* The routines that take the console lock, or those that take the write lock of a
\* Terminal
NextLock ==
    \/ last.op \notin HostOps /\ NextConsoleApi
    \/ last.op \notin ConsoleApiOps /\ NextHost

SpecLock == Init /\ [][NextLock]_vars

\* The life of a window: Initialize with each of its failures, use, and the three
\* ways down
NextTeardown ==
    \/ Do_Initialize(InitOutcomes)
    \/ Do_StartSelection({0, FontW}, {0}, {0}, {FALSE}, {"ok"})
    \/ Do_MoveSelection({0, FontW}, {0}, {"ok"})
    \/ Do_LButtonUp
    \/ Do_SendOutput
    \/ Do_Teardown
    \/ Do_WmDestroy
    \/ Do_Destructor

SpecTeardown == Init /\ [][NextTeardown]_vars

\* Characters typed into the window of a Terminal, with and without a selection
NextInput ==
    \/ Do_Initialize({"ok"})
    \/ Do_StartSelection({0, FontW}, {0}, {0}, {FALSE}, {"ok"})
    \/ Do_MoveSelection({0, FontW}, {0}, {"ok"})
    \/ Do_LButtonUp
    \/ Do_SendCharEvent(Chars, BOOLEAN, BOOLEAN)

SpecInput == Init /\ [][NextInput]_vars

\* Resizing a screen buffer that is written and moved in
NextResize ==
    \/ Do_SetConsoleScreenBufferSize
    \/ Do_ScreenWrite({"x"})
    \/ Do_ScreenSetCursor({0, BufW}, {0, BufH})

SpecResize == Init /\ [][NextResize]_vars

\* Line feeds in a buffer with scroll margins
NextScroll ==
    \/ Do_DoSrvPrivateSetScrollingRegion
    \/ Do_ScreenLineFeed
    \/ Do_ScreenWrite(Texts)
    \/ Do_ScreenSetCursor({0, BufW - 1}, 0..(BufH - 1))

SpecScroll == Init /\ [][NextScroll]_vars

\* Reverse line feeds in a buffer with scroll margins and a viewport that can be
\* below the top of the buffer
NextReverse ==
    \/ Do_DoSrvPrivateSetScrollingRegion
    \/ Do_ReverseLineFeed
    \/ Do_ResizeRows
    \/ Do_ScreenWrite({"x"})
    \/ Do_ScreenSetCursor({0, BufW - 1}, 0..BufH)

SpecReverse == Init /\ [][NextReverse]_vars

\* The main and the alternate buffer, written and moved in
NextAlternate ==
    \/ Do_UseAlternateScreenBuffer
    \/ Do_UseMainScreenBuffer
    \/ Do_ScreenWrite({"y"})
    \/ Do_ScreenSetCursor({0, BufW - 1}, 0..(BufH - 1))
    \/ Do_ScreenLineFeed

SpecAlternate == Init /\ [][NextAlternate]_vars

\* Text printed character by character and in runs
NextPrint ==
    \/ Do_PrintChar
    \/ Do_PrintStringOf

SpecPrint == Init /\ [][NextPrint]_vars

\* Characters fed to the parser one by one
NextParser == Do_ProcessCharacter

SpecParser == Init /\ [][NextParser]_vars

\* Run calls from two threads against the dispatcher and the timer
NextThrottle == Func_Run \/ Func_RunAsync \/ Ui_StartTimer \/ Ui_TickStop \/ Ui_TickSwap \/ Ui_TickApply

SpecThrottle == Init /\ [][NextThrottle]_vars

\* _GetUiaProvider called by two threads, again and again
NextUia ==
    Uia_Call \/ Uia_ReadProvider \/ Uia_ReadInitialized \/ Uia_Lock \/ Uia_Recheck \/ Uia_Make \/ Uia_Mark
        \/ Uia_Return

SpecUia == Init /\ [][NextUia]_vars

\* The same with ModifyPending; a thread inside Run goes on, the dispatcher runs what
\* is queued and a started timer ticks; nobody has to call Run or ModifyPending
NextThrottleLive == NextThrottle \/ Func_ModifyPending

SpecThrottleLive ==
    Init /\ [][NextThrottleLive]_vars /\ WF_vars(FuncThreadStep) /\ WF_vars(FuncUiStep)

TestStep ==
    \/ \E withDx \in BOOLEAN : Render_Make(withDx)
    \/ Render_Initialize
    \/ Render_AddRenderEngine
    \/ Render_EnablePainting
    \/ Render_TeardownDisable
    \/ Render_TeardownWait
    \/ Render_Reset
    \/ Render_Join

ThreadStep ==
    \/ Thread_Loop
    \/ Thread_PaintEnabled
    \/ Thread_Redraw
    \/ Thread_PaintFrame

\* The test thread and the render thread, interleaved in every way, and redraw
\* requests arriving meanwhile
NextRender == TestStep \/ ThreadStep \/ Render_NotifyPaint

\* both threads are scheduled again and again
SpecRender ==
    /\ Init
    /\ [][NextRender]_vars
    /\ WF_vars(TestStep)
    /\ WF_vars(ThreadStep)

-----------------------------------------------------------------------------
(* Properties of TerminalDispatch *)

\* a call log without the outcomes: which API was called with what
Requests(calls) == [i \in 1..Len(calls) |-> [api |-> calls[i].api, arg |-> calls[i].arg, pos |-> calls[i].pos]]

IsPrefix(s, t) == Len(s) <= Len(t) /\ \A i \in 1..Len(s) : s[i] = t[i]

Req(api, arg) == [api |-> api, arg |-> arg, pos |-> NoPos]

\* what a soft reset asks of the terminal
SoftResetRequests == <<Req("SetCursorVisibility", "true"), Req("SetCursorKeysMode", "false"),
                       Req("SetKeypadMode", "false"), Req("SetTextAttributes", "default")>>

\* soft reset, erase screen, erase scrollback, screen mode normal, cursor home
HardResetRequests == SoftResetRequests \o
                     <<Req("EraseInDisplay", "All"), Req("EraseInDisplay", "Scrollback"),
                       Req("SetScreenMode", "false"),
                       [api |-> "SetCursorPosition", arg |-> "", pos |-> <<0, 0>>]>>

\* C1: HardReset performs the soft reset, then the erase of the entire screen, then the
\* erase of the scrollback, then the reset of the screen mode to normal, then the cursor
\* move to the home position, in exactly this order: what it has asked of the terminal
\* is always a prefix of that list, and the whole list once it has returned.
C1_HardResetOrder ==
    last.op = "HardReset" =>
        /\ IsPrefix(Requests(last.calls), HardResetRequests)
        /\ ~terminated => Requests(last.calls) = HardResetRequests

\* a HardReset that returned although one of its API calls failed or threw
C1_Witness ==
    /\ last.op = "HardReset"
    /\ ~terminated
    /\ \E i \in 1..Len(last.calls) : last.calls[i].outcome # "ok"
    /\ Len(last.calls) = Len(HardResetRequests)

\* the sub-operations of the two resets
ResetSubOps(op) ==
    IF op = "SoftReset"
    THEN <<"CursorVisibility", "SetCursorKeysMode", "SetKeypadMode", "SetGraphicsRendition">>
    ELSE <<"SoftReset", "EraseInDisplay(All)", "EraseInDisplay(Scrollback)", "SetScreenMode",
           "CursorPosition">>

\* C2: SoftReset and HardReset each return true if and only if every one of their
\* sub-operations returned true.
C2_ResetReturnsConjunction ==
    (last.op \in {"SoftReset", "HardReset"} /\ ~terminated) =>
        /\ [i \in 1..Len(last.subs) |-> last.subs[i].op] = ResetSubOps(last.op)
        /\ last.ret <=> \A i \in 1..Len(last.subs) : last.subs[i].ret

\* a reset that returned false although its last sub-operation returned true
C2_Witness ==
    /\ last.op \in {"SoftReset", "HardReset"}
    /\ ~terminated
    /\ ~last.ret
    /\ last.subs[Len(last.subs)].ret

PrivateModeOps == {"SetPrivateMode", "ResetPrivateMode"}

\* C3: for any private-mode number that is not one of the recognized modes,
\* SetPrivateMode and ResetPrivateMode return false and invoke no mode setter, so no
\* terminal mode flag changes.
C3_UnrecognizedModeRefused ==
    [][(last'.op \in PrivateModeOps /\ last'.arg \notin RecognizedParams) =>
           /\ last'.ret = FALSE
           /\ last'.calls = <<>>
           /\ term'.modes = term.modes]_vars

\* an unrecognized private mode was set or reset in a terminal whose modes are no
\* longer the initial ones
C3_Witness ==
    /\ last.op \in PrivateModeOps
    /\ last.arg \in UnrecognizedParams
    /\ term.modes # InitModes

\* C4: every TerminalDispatch operation reports failure only through its boolean return
\* value: when the terminal API call it delegates to fails or throws, the operation
\* returns false and nothing propagates out of it (no exception, no process termination).
C4_FailureOnlyByReturnValue ==
    last.op # "none" =>
        /\ ~terminated
        /\ (\E i \in 1..Len(last.calls) : last.calls[i].outcome # "ok") => last.ret = FALSE

-----------------------------------------------------------------------------
(* Properties of the cursor *)

\* where a cursor-moving call is meant to put the cursor: CUP to (column - 1, line - 1),
\* CUF n columns right, CUB n columns left, CUU n rows up
IntendedTarget(op, pos, n, m) ==
    CASE op = "CursorPosition" -> [X |-> m - 1, Y |-> n - 1]
      [] op = "CursorForward" -> [X |-> pos.X + n, Y |-> pos.Y]
      [] op = "CursorBackward" -> [X |-> pos.X - n, Y |-> pos.Y]
      [] op = "CursorUp" -> [X |-> pos.X, Y |-> pos.Y - n]

MovingOps == {"CursorPosition", "CursorForward", "CursorBackward", "CursorUp"}

\* C5: a cursor-moving dispatch call (CursorPosition, CursorForward, CursorBackward,
\* CursorUp) whose target position lies outside the buffer bounds returns false and
\* leaves the cursor position unchanged.
C5_OutOfBoundsMoveRefused ==
    [][(/\ last'.op \in MovingOps
        /\ LET target == IntendedTarget(last'.op, term.cursorPos, last'.n, last'.m)
           IN  ~InBounds(target.X, target.Y)) =>
           /\ last'.ret = FALSE
           /\ term'.cursorPos = term.cursorPos]_vars

\* C6: after any sequence of cursor-moving operations (CursorPosition, CursorForward,
\* CursorBackward, CursorUp, CarriageReturn, LineFeed, SetConsoleCursorPosition, and
\* the console's line feed), the cursor column is within the buffer's column bounds and
\* the cursor row is within the buffer's valid rows.
C6_CursorInBounds ==
    /\ InBounds(term.cursorPos.X, term.cursorPos.Y)
    /\ InBounds(con.cursorPos.X, con.cursorPos.Y)

\* a cursor on the last row and column, after a request one past the last column was
\* refused, or after a line feed of the Terminal on the last row
C6_Witness ==
    \/ /\ last.op = "SetConsoleCursorPosition"
       /\ last.n = BufW
       /\ last.hr = "E_INVALIDARG"
       /\ con.cursorPos = [X |-> BufW - 1, Y |-> BufH - 1]
    \/ /\ last.op = "LineFeed"
       /\ last.ret
       /\ term.cursorPos = [X |-> BufW - 1, Y |-> BufH - 1]

-----------------------------------------------------------------------------
(* Properties of the color tables *)

ColorTableOps == {"SetColorTableEntry", "DoSrvPrivateSetColorTableEntry", "DoSrvPrivateGetColorTableEntry"}

\* C7: a request to set or read a color table entry with index 256 or greater returns
\* failure and leaves every color table entry unchanged.
C7_IndexOutOfRangeRefused ==
    [][(last'.op \in ColorTableOps /\ last'.n >= 256) =>
           /\ last'.ret = FALSE
           /\ colorTable' = colorTable
           /\ termColors' = termColors]_vars

\* index 256 was refused on a table some entry of which had been set before
C7_Witness ==
    /\ last.op \in ColorTableOps
    /\ last.n = 256
    /\ last.ret = FALSE
    /\ (colorTable # InitColorTable \/ termColors # InitColorTable)

\* C8: for every index i from 0 to 255 and every color c, after SetColorTableEntry(i, c)
\* succeeds, resolving the indexed color i against the color table (and reading entry i
\* back) yields c: a successful set followed by TextColor(i).GetColor on the Terminal's
\* table, or by a successful DoSrvPrivateGetColorTableEntry(i), gives the color set.
C8_SetThenReadYieldsColor ==
    [][/\ (/\ last.op = "SetColorTableEntry" /\ last.ret
           /\ last'.op = "GetColor" /\ last'.arg \in {"IsIndex16", "IsIndex256"}
           /\ last'.n = last.n) => last'.out = last.m
       /\ (/\ last.op = "DoSrvPrivateSetColorTableEntry" /\ last.ret
           /\ last'.op = "DoSrvPrivateGetColorTableEntry" /\ last'.ret
           /\ last'.n = last.n) => last'.out = last.m]_vars

\* entry 1, which the console keeps at another place of its table, was read back
C8_Witness ==
    /\ last.op = "DoSrvPrivateGetColorTableEntry"
    /\ last.n = 1
    /\ last.ret
    /\ last.out \in ColorArgs

-----------------------------------------------------------------------------
(* Properties of the selection *)


\* a position clamped to the buffer bounds
ClampedToBuffer(x, y) ==
    [X |-> Max(0, Min(BufW - 1, x)), Y |-> Max(0, Min(BufH - 1, y))]

\* C9: after ExtendSelection(pos) on a selection that has an area, with p being pos
\* clamped to the buffer bounds, the selection rectangle is Left = min(anchor.X, p.X),
\* Right = max(anchor.X, p.X), Top = min(anchor.Y, p.Y), Bottom = max(anchor.Y, p.Y),
\* and the anchor is unchanged.
C9_ExtendSelectionRectangle ==
    [][(last'.op = "ExtendSelection" /\ IsAreaSelected(sel)) =>
           LET p == ClampedToBuffer(last'.n, last'.m)
           IN  /\ sel'.rect = [Left |-> Min(sel.anchor.X, p.X), Right |-> Max(sel.anchor.X, p.X),
                               Top |-> Min(sel.anchor.Y, p.Y), Bottom |-> Max(sel.anchor.Y, p.Y)]
               /\ sel'.anchor = sel.anchor]_vars

\* a mouse selection anchored at the last cell was extended to a position left of and
\* above the buffer, and reaches from the first cell to the anchor
C9_Witness ==
    /\ last.op = "ExtendSelection"
    /\ last.n = -1
    /\ last.m = -1
    /\ IsMouseInitiatedSelection(sel)
    /\ sel.anchor = [X |-> BufW - 1, Y |-> BufH - 1]
    /\ sel.rect = [Left |-> 0, Top |-> 0, Right |-> BufW - 1, Bottom |-> BufH - 1]

\* C10: calling ExtendSelection twice in a row with the same position leaves the same
\* selection rectangle and anchor as calling it once.
C10_ExtendSelectionIdempotent ==
    [][(last'.op = "ExtendSelection" /\ last'.rep) =>
           /\ sel'.rect = sel.rect
           /\ sel'.anchor = sel.anchor]_vars

\* a second ExtendSelection with the same position, on a selection wider than its anchor
C10_Witness ==
    /\ last.op = "ExtendSelection"
    /\ last.rep
    /\ IsAreaSelected(sel)
    /\ sel.rect.Left < sel.rect.Right

\* C11: whenever a selection is active (selecting state with an area selected,
\* including immediately after InitializeMouseSelection and after each following
\* ExtendSelection), GetSelectionRects returns a non-empty list of row rectangles
\* covering the span between anchor and extent.
C11_ActiveSelectionHasRects ==
    (/\ last.op = "GetSelectionRects"
     /\ IsInSelectingState(sel)
     /\ IsAreaSelected(sel)) =>
        /\ last.out # <<>>
        /\ last.out[1].Top = Min(sel.rect.Top, sel.rect.Bottom)
        /\ last.out[Len(last.out)].Bottom = Max(sel.rect.Top, sel.rect.Bottom)

\* C12: ClearSelection called when no selection is active changes no selection state,
\* and calling ClearSelection twice in a row leaves the same state as calling it once
\* (Selection::ClearSelection of the console host and HwndTerminal::_ClearSelection).
C12_ClearSelectionIdempotent ==
    [][/\ (last'.op = "ClearSelection" /\ (~IsInSelectingState(sel) \/ last.op = "ClearSelection")) =>
              (sel' = sel /\ con' = con)
       /\ (last'.op = "_ClearSelection" /\ (~hwnd.selection.active \/ last.op = "_ClearSelection")) =>
              hwnd' = hwnd]_vars

\* a second ClearSelection in a row, after a selection anchored away from the origin
\* had been cleared by the first
C12_Witness ==
    /\ last.op = "ClearSelection"
    /\ last.rep
    /\ ~IsInSelectingState(sel)
    /\ sel.anchor # [X |-> 0, Y |-> 0]

\* C13: the selection leaves Idle only through an explicit selection start
\* (InitializeMouseSelection, also inside SelectNewRegion) or mark-mode entry
\* (InitializeMarkSelection) and returns to Idle only through ClearSelection; after
\* ClearSelection the selection is not in selecting state and no area is selected.
C13_IdleSelectingIdle ==
    [][/\ (~IsInSelectingState(sel) /\ IsInSelectingState(sel')) =>
              \/ last'.op \in {"InitializeMouseSelection", "InitializeMarkSelection"}
              \/ \E i \in DOMAIN last'.subs : last'.subs[i] = "InitializeMouseSelection"
       /\ (IsInSelectingState(sel) /\ ~IsInSelectingState(sel')) => last'.op = "ClearSelection"
       /\ last'.op = "ClearSelection" => (~IsInSelectingState(sel') /\ ~IsAreaSelected(sel'))]_vars

\* a selection that had been started and extended over several cells was cleared
C13_Witness ==
    /\ last.op = "ClearSelection"
    /\ ~last.rep
    /\ ~IsInSelectingState(sel)
    /\ ~IsAreaSelected(sel)
    /\ sel.rect.Left < sel.rect.Right

SelectionStarts == {"InitializeMouseSelection", "InitializeMarkSelection", "SelectNewRegion"}

\* C14: starting a new selection while another one is active destroys the old one
\* first: once the new selection has started, the rectangle of a mouse selection is
\* the cell it started at (a mark-mode selection has no area yet), the old selection's visibility is gone (only SelectNewRegion
\* shows the new one itself), the alternate-selection mode is that of the new
\* selection, and the cursor saved by a prior mark-mode selection has been restored.
C14_NewSelectionDestroysOld ==
    [][(last'.op \in SelectionStarts /\ IsInSelectingState(sel)) =>
          /\ last'.op # "SelectNewRegion" => ~sel'.visible
          /\ last'.op = "InitializeMouseSelection" =>
                 sel'.rect = [Left |-> sel'.anchor.X, Top |-> sel'.anchor.Y,
                              Right |-> sel'.anchor.X, Bottom |-> sel'.anchor.Y]
          /\ last'.op = "InitializeMouseSelection" => sel'.useAlternate = (last'.arg = "true")
          /\ last'.op = "InitializeMarkSelection" => ~sel'.useAlternate
          /\ ~IsMouseInitiatedSelection(sel) => con'.cursorPos = sel.savedCursorPosition]_vars

\* C15: of two mouse presses in a row, the second restarts the click count at 1 exactly
\* if its position differs from that of the first or if the time since the first
\* exceeds the multi-click interval; otherwise its count is the count of the first
\* plus one.
C15_ClickCount ==
    [][(last.op = "_StartSelection" /\ last'.op = "_StartSelection") =>
          last'.out = IF last'.n # last.n \/ last'.m # last.m \/ last'.dt > MultiClickTime
                      THEN 1
                      ELSE last.out + 1]_vars

\* C16: the second click of a multi-click sequence selects the word under the pointer
\* and the third click the line; neither starts a drag selection: the touchdown point
\* is left as it was and the existing selection is not cleared first.
C16_MultiClickSelects ==
    [][(last'.op = "_StartSelection" /\ last'.out \in {2, 3} /\ last'.hr = "S_OK") =>
          /\ hwnd'.selection = [active |-> TRUE,
                                mode |-> IF last'.out = 2 THEN "Word" ELSE "Line",
                                anchor |-> CellOf(last'.n, last'.m, hwnd.font),
                                end |-> CellOf(last'.n, last'.m, hwnd.font)]
          /\ hwnd'.singleClickTouchdownPos = hwnd.singleClickTouchdownPos
          /\ \A i \in DOMAIN last'.calls : last'.calls[i].what # "ClearSelection"]_vars

\* a triple click, the button released in between, selected a line away from the origin
C16_Witness ==
    /\ last.op = "_StartSelection"
    /\ last.out = 3
    /\ last.hr = "S_OK"
    /\ hwnd.selection.mode = "Line"
    /\ hwnd.selection.anchor # <<0, 0>>
    /\ ~hwnd.singleClickTouchdownPos.has

-----------------------------------------------------------------------------
(* Properties of the locks *)

\* C17: every routine that acquires the console lock or the write lock of the terminal
\* has released it when it returns, whichever way it returns: the lock is not held at
\* the end and every acquisition is followed by a release.
C17_LockReleasedOnEveryPath ==
    last.op \in HostOps \cup ConsoleApiOps =>
        /\ ~last.held
        /\ \A i \in DOMAIN last.calls :
               last.calls[i].e = "lock" =>
                   \E j \in DOMAIN last.calls : j > i /\ last.calls[j].e = "unlock"

\* an exception inside SetConsoleInputModeImpl left after the lock had been taken
C17_Witness ==
    /\ last.op = "SetConsoleInputModeImpl"
    /\ last.hr = "E_FAIL"
    /\ \E i \in DOMAIN last.calls : last.calls[i].e = "lock"
    /\ ~last.held

C19_MutationUnderWriteLock ==
    last.op \in HostOps =>
        \A i \in DOMAIN last.calls : last.calls[i].e = "mutate" => last.calls[i].held

-----------------------------------------------------------------------------
(* Properties of the life of a window *)

\* C20: on every way down (Teardown, WM_DESTROY, the destructor, also after an
\* Initialize that failed part way) the renderer is gone and its thread stopped
\* before the terminal and its buffer are destroyed: a step that destroys the
\* terminal starts without a renderer or ends the renderer earlier in the same step,
\* and no renderer or running thread is left once the terminal is gone.
C20_RendererDownBeforeBuffer ==
    [][(hwnd.terminal = "alive" /\ hwnd'.terminal = "null") =>
          /\ hwnd'.renderer = "null"
          /\ hwnd'.thread \in {"none", "stopped"}
          /\ \A i \in DOMAIN last'.calls :
                 last'.calls[i].what = "~Terminal" =>
                     \/ hwnd.renderer = "null"
                     \/ \E j \in DOMAIN last'.calls : j < i /\ last'.calls[j].what = "~Renderer"]_vars

\* an initialized window was destroyed: the renderer was torn down, and the buffer
\* destroyed after it
C20_Witness ==
    /\ last.op = "~HwndTerminal"
    /\ hwnd.buffer = "destroyed"
    /\ hwnd.thread = "stopped"
    /\ \E i, j \in DOMAIN last.calls :
           /\ i < j
           /\ last.calls[i].what = "TriggerTeardown"
           /\ last.calls[j].what = "~Terminal"

-----------------------------------------------------------------------------
(* Properties of the render thread *)

-----------------------------------------------------------------------------
(* Properties of the input sent to the connected process *)

\* C22: the bytes sent to the connected process for a character event depend only on
\* the event and the input modes: the event sends what the same event sends when
\* nothing is selected, whatever the selection is.
C22_BytesDependOnEventOnly ==
    [][last'.op = "TerminalSendCharEvent" =>
          Sent(last'.calls) =
              Sent(_SendCharEvent(HRun([hwnd EXCEPT !.selection = NoSelection]),
                                  last'.arg, last'.n = 1, last'.m = 1).ev)]_vars

-----------------------------------------------------------------------------
(* Properties of the screen buffers *)

\* C24: a request to change the size of the screen buffer that is rejected with an
\* error leaves the buffer with the dimensions it had.
C24_RejectedResizeKeepsSize ==
    [][(last'.op = "SetConsoleScreenBufferSizeImpl" /\ last'.hr # "S_OK") =>
          (screen'.size = screen.size /\ DOMAIN screen'.rows = DOMAIN screen.rows)]_vars

\* a grown buffer refused a size below the window's and kept its rows
C24_Witness ==
    /\ last.op = "SetConsoleScreenBufferSizeImpl" /\ last.hr = "E_INVALIDARG"
    /\ last.m = BufH - 1
    /\ screen.size = [X |-> BufW + 1, Y |-> BufH + 1]
    /\ screen.rows[BufH] # Blank

\* C25: with scroll margins [top, bottom] set, a line feed with the cursor on the
\* bottom margin row moves the rows top+1..bottom up by one, leaves the bottom row
\* blank and the cursor on it, and leaves the rows outside top..bottom as they were.
C25_LineFeedScrollsMarginsOnly ==
    [][(last'.op = "DoSrvPrivateLineFeed" /\ MarginsSet(screen)
        /\ screen.cursor.Y = AbsoluteMargins(screen).Bottom) =>
          LET m == AbsoluteMargins(screen)
          IN  /\ \A r \in DOMAIN screen.rows :
                    screen'.rows[r] = IF r < m.Top \/ r > m.Bottom THEN screen.rows[r]
                                      ELSE IF r < m.Bottom THEN screen.rows[r + 1] ELSE Blank
              /\ screen'.cursor.Y = m.Bottom
              /\ screen'.margins = screen.margins]_vars

\* a line feed on the bottom margin moved a text up inside the margins while the
\* rows above and below the margins kept their texts
C25_Witness ==
    /\ last.op = "DoSrvPrivateLineFeed"
    /\ screen.margins = [Top |-> 1, Bottom |-> 2] /\ screen.cursor.Y = 2
    /\ screen.rows[0] = "x" /\ screen.rows[1] = "y" /\ screen.rows[2] = Blank

\* C26: while the alternate buffer is shown, nothing written or moved changes the
\* main buffer; switching back shows the main buffer with the content and the cursor
\* it had when it was left; switching to the main buffer on the main buffer changes
\* nothing.
C26_MainBufferRestored ==
    [][/\ (last'.op = "DoSrvPrivateUseAlternateScreenBuffer" /\ ~screen.main.has) =>
              (screen'.main.has /\ screen'.main.b = Buffer(screen))
       /\ (screen.main.has /\ screen'.main.has) => screen'.main = screen.main
       /\ (last'.op = "DoSrvPrivateUseMainScreenBuffer" /\ screen.main.has) =>
              (~screen'.main.has /\ Buffer(screen') = screen.main.b)
       /\ (last'.op = "DoSrvPrivateUseMainScreenBuffer" /\ ~screen.main.has) => screen' = screen]_vars

\* back on a main buffer with a text and a moved cursor, after the alternate was
\* written
C26_Witness ==
    /\ last.op = "DoSrvPrivateUseMainScreenBuffer"
    /\ ~screen.main.has
    /\ screen.rows[1] = "y" /\ screen.cursor = [X |-> BufW - 1, Y |-> 1]

-----------------------------------------------------------------------------
(* Properties of the parser and its dispatch *)

DispatchActions == {"EscDispatch", "CsiDispatch"}

\* C28: after a complete sequence is dispatched the parser is in Ground and the
\* sequence it accumulated is empty, whether the dispatch succeeded or failed.
C28_GroundAfterDispatch ==
    [][(last'.op = "ProcessCharacter" /\ last'.subs[1] \in DispatchActions) =>
          (parser'.state = "Ground" /\ parser'.sequenceTrace = <<>>)]_vars

\* a CSI sequence with a parameter was dispatched and the dispatch failed
C28_Witness ==
    /\ last.op = "ProcessCharacter" /\ last.subs = <<"CsiDispatch">> /\ ~last.ret
    /\ last.str = <<"[", "1", "A">>
    /\ parser.state = "Ground" /\ parser.sequenceTrace = <<>>
    /\ parser.event = "StateMachine_Sequence_FAIL"

-----------------------------------------------------------------------------
(* Properties of ThrottledFunc *)

InFlight(f) ==
    Cardinality({t \in Threads : f.pc[t] = "dispatch"}) + f.queue + f.timers
        + (IF f.ui.pc = "stopped" THEN 1 ELSE 0)

\* C30 as stated: exactly one started timer whenever arguments are pending, and none
\* otherwise.
C30_OneTimerWhilePending ==
    func.timers = IF func.pendingRunArgs.has THEN 1 ELSE 0

\* C30: under every interleaving of Run and ModifyPending calls of the threads with
\* the dispatcher and the tick, exactly one timer is scheduled or started whenever
\* arguments are pending and none otherwise; every tick finds arguments; and pending
\* arguments are always taken by a tick.
C30_OneTimerScheduledWhilePending ==
    /\ [](/\ InFlight(func) = (IF func.pendingRunArgs.has THEN 1 ELSE 0)
          /\ ~func.thrown)
    /\ (func.pendingRunArgs.has ~> ~func.pendingRunArgs.has)

\* a thread made arguments pending again between the tick's swap and the call of the
\* function
C30_Witness ==
    /\ func.ui.pc = "swapped" /\ func.ui.args.has
    /\ func.pendingRunArgs.has
    /\ InFlight(func) = 1

-----------------------------------------------------------------------------
(* Properties settled last: cursor up, click cycle, input mode, anchor, blinking, *)
(* reentrant teardown, resets, drag threshold, reverse line feed, UIA provider    *)

\* C31: CursorUp(n) requests the position with the same column and with the row
\* decreased by n.
C31_CursorUpDecreasesRow ==
    [][(last'.op = "CursorUp" /\ Len(last'.calls) > 0) =>
          last'.calls[1].pos = <<term.cursorPos.X, ToShort(term.cursorPos.Y - last'.n)>>]_vars


\* what a press acted as, from the calls it made: 3 for a line selected, 2 for a word,
\* 1 for a single click
ActedAs(calls, h) ==
    IF \E i \in DOMAIN calls : calls[i].what = "MultiClickSelection"
    THEN IF h.selection.mode = "Line" THEN 3 ELSE 2
    ELSE 1

\* C32: in a run of clicks at one position, each within the multi-click time of the
\* click before, a click acts as the next of single, double, triple, single, ... after
\* what the click before acted as; a click elsewhere or later acts as a single click.
C32_ClickCycle ==
    [][(last.op = "_StartSelection" /\ last'.op = "_StartSelection"
        /\ last.hr = "S_OK" /\ last'.hr = "S_OK") =>
          ActedAs(last'.calls, hwnd') =
              IF last'.n # last.n \/ last'.m # last.m \/ last'.dt > MultiClickTime
              THEN 1
              ELSE (ActedAs(last.calls, hwnd) % 3) + 1]_vars

\* the mode is one SetConsoleInputModeImpl refuses: it has a flag outside the input
\* modes and the private modes, or echo input without line input
RefusedMode(mode) ==
    \/ mode \ (INPUT_MODES \cup PRIVATE_MODES) # {}
    \/ "ENABLE_ECHO_INPUT" \in mode /\ "ENABLE_LINE_INPUT" \notin mode

\* C33: SetConsoleInputModeImpl given a mode with unknown flags, or with echo input
\* set and line input clear, returns E_INVALIDARG (when nothing inside it threw), and
\* the mode of the input buffer is then the requested mode without the private modes.
C33_RefusedModeIsStored ==
    [][(last'.op = "SetConsoleInputModeImpl" /\ RefusedMode(last'.mode) /\ last'.hr # "E_FAIL") =>
          /\ last'.hr = "E_INVALIDARG"
          /\ con'.InputMode = last'.mode \ PRIVATE_MODES]_vars

\* a refused mode with a private flag was stored over a different mode
C33_Witness ==
    /\ last.op = "SetConsoleInputModeImpl"
    /\ last.hr = "E_INVALIDARG"
    /\ last.mode = {"ENABLE_ECHO_INPUT", "ENABLE_INSERT_MODE"}
    /\ con.InputMode = {"ENABLE_ECHO_INPUT"}

\* the anchor is one of the four corners of the selection rectangle
AnchorAtCorner(s) ==
    /\ s.anchor.X \in {s.rect.Left, s.rect.Right}
    /\ s.anchor.Y \in {s.rect.Top, s.rect.Bottom}

\* C34: whenever an area is selected, the selection anchor is at one of the four
\* corners of the selection rectangle, after any sequence of InitializeMouseSelection,
\* ExtendSelection, AdjustSelection, SelectNewRegion and SelectAll calls.
C34_AnchorAtCorner == IsAreaSelected(sel) => AnchorAtCorner(sel)

\* AdjustSelection moved the anchor of a selection with an area away from where it
\* was, to a corner of a rectangle of more than one cell
C34_Witness ==
    /\ last.op = "AdjustSelection"
    /\ IsAreaSelected(sel)
    /\ sel.anchor = [X |-> BufW - 1, Y |-> 0]
    /\ sel.rect = [Left |-> 0, Top |-> 0, Right |-> BufW - 1, Bottom |-> 0]

\* C35: while cursor blinking is disabled the cursor stays On: no tick of the blink
\* timer turns the cursor Off, whether the cursor is visible or not.
C35_NoTickTurnsCursorOff ==
    [][(last'.op = "TerminalBlinkCursor" /\ ~hwnd.blinkingAllowed /\ hwnd.cursorOn) => hwnd'.cursorOn]_vars

\* how many of the calls made are calls of what
Count(calls, what) == Cardinality({i \in DOMAIN calls : calls[i].what = what})

\* the three ways into Teardown
TeardownOps == {"Teardown", "WM_DESTROY", "~HwndTerminal"}

\* C36: Teardown is reentrant: however many times it runs, also from the WM_DESTROY
\* raised by its own DestroyWindow, TriggerTeardown of the renderer happens at most
\* once and the window is destroyed at most once: a run makes each call at most
\* once, only for a renderer and a window the object still has, and has neither
\* afterwards.
C36_TeardownOnce ==
    [][last'.op \in TeardownOps =>
          /\ Count(last'.calls, "TriggerTeardown") <= (IF hwnd.renderer = "alive" THEN 1 ELSE 0)
          /\ Count(last'.calls, "DestroyWindow") <= (IF hwnd.window = "alive" THEN 1 ELSE 0)
          /\ hwnd'.renderer = "alive" => hwnd.renderEngine = "null" /\ Count(last'.calls, "TriggerTeardown") = 0
          /\ hwnd'.window # "alive"]_vars

\* Teardown ran on an initialized terminal with its window: the renderer was torn
\* down, the window destroyed, and the WM_DESTROY raised inside found nothing to do
C36_Witness ==
    /\ last.op = "Teardown"
    /\ Count(last.calls, "TriggerTeardown") = 1
    /\ Count(last.calls, "DestroyWindow") = 1
    /\ Count(last.calls, "WM_DESTROY") = 1
    /\ last.calls[Len(last.calls)].what = "WM_DESTROY"

\* Teardown ran again after the terminal had been torn down
C36_WitnessAgain ==
    /\ last.op \in TeardownOps
    /\ last.calls = <<>>
    /\ hwnd.terminal = "alive"
    /\ hwnd.renderer = "null"

\* C37: HardReset and SoftReset attempt every one of their sub-operations even when
\* an earlier one has failed: a reset that returns has run all its sub-operations and
\* has asked the terminal for everything on its list, whatever each returned.
C37_EverySubOperationAttempted ==
    (last.op \in {"SoftReset", "HardReset"} /\ ~terminated) =>
        /\ Len(last.subs) = Len(ResetSubOps(last.op))
        /\ \A i \in 1..Len(ResetSubOps(last.op)) : last.subs[i].op = ResetSubOps(last.op)[i]
        /\ Len(last.calls) = Len(IF last.op = "SoftReset" THEN SoftResetRequests ELSE HardResetRequests)

\* a reset whose first sub-operation failed and whose last sub-operation ran and
\* succeeded
C37_Witness ==
    /\ last.op \in {"SoftReset", "HardReset"}
    /\ ~terminated
    /\ ~last.subs[1].ret
    /\ Len(last.subs) = Len(ResetSubOps(last.op))
    /\ last.subs[Len(last.subs)].ret
    /\ last.calls[Len(last.calls)].outcome = "ok"

\* C38: a mouse move with the left button held that has not yet travelled the drag
\* threshold (a quarter of the smaller font cell dimension) from the single-click
\* touchdown point neither starts a selection nor changes the selection end: it
\* leaves the selection as it was.
C38_BelowThresholdKeepsSelection ==
    [][(/\ last'.op = "_MoveSelection"
        /\ last'.hr = "S_OK"
        /\ hwnd.singleClickTouchdownPos.has
        /\ ~FarEnough(last'.n, last'.m, hwnd.singleClickTouchdownPos, hwnd.font)) =>
          hwnd'.selection = hwnd.selection]_vars

\* C39: a reverse line feed with the cursor on the top row of the viewport never moves
\* the cursor or the viewport: with the cursor inside the scroll margins, or with no
\* margins set, the rows from the top of the viewport to the bottom margin (the
\* bottom of the viewport without margins) move down by one and the top row is
\* blank; with margins set and the cursor outside them nothing changes.
C39_ReverseLineFeedAtTop ==
    [][(last'.op = "DoSrvPrivateReverseLineFeed" /\ screen.cursor.Y = screen.viewTop) =>
          LET top == screen.viewTop
              set == screen.margins.Bottom > screen.margins.Top
              inside == /\ screen.cursor.Y >= top + screen.margins.Top
                        /\ screen.cursor.Y <= top + screen.margins.Bottom
              bottom == IF set THEN top + screen.margins.Bottom ELSE top + WindowSize.Y - 1
          IN  /\ screen'.cursor = screen.cursor
              /\ screen'.viewTop = screen.viewTop
              /\ IF set /\ ~inside THEN screen' = screen
                 ELSE /\ DOMAIN screen'.rows = DOMAIN screen.rows
                      /\ \A r \in DOMAIN screen.rows :
                             screen'.rows[r] = IF r < top \/ r > bottom THEN screen.rows[r]
                                               ELSE IF r = top THEN Blank
                                               ELSE screen.rows[r - 1]]_vars

\* a reverse line feed on the top row of a viewport that is below the top of the
\* buffer, with margins set that end above the bottom of the viewport, moved text
\* down from the top row and left the row below the margins as it was
C39_Witness ==
    /\ last.op = "DoSrvPrivateReverseLineFeed"
    /\ screen.viewTop = 1
    /\ screen.cursor.Y = 1
    /\ screen.margins = [Top |-> 0, Bottom |-> 1]
    /\ screen.rows[1] = Blank
    /\ screen.rows[2] = "x"
    /\ screen.rows[3] = "x"

\* a reverse line feed with margins set and the cursor above them, on the top row
C39_WitnessOutside ==
    /\ last.op = "DoSrvPrivateReverseLineFeed"
    /\ screen.cursor.Y = screen.viewTop
    /\ screen.margins.Top > 0
    /\ screen.margins.Bottom > screen.margins.Top
    /\ screen.rows[screen.viewTop] = "x"

\* C40: under any interleaving of concurrent _GetUiaProvider calls the UIA provider
\* is constructed at most once, and once the initialization has been attempted
\* every later call returns that same provider (or null if the attempt failed)
\* without retrying: the provider and the count of constructions never change again.
C40_ProviderMadeOnce ==
    /\ [](/\ uia.made <= 1
          /\ \A t \in Threads : (uia.pc[t] = "done" /\ uia.late[t]) => uia.ret[t] = uia.provider)
    /\ [][uia.initialized => (uia'.initialized /\ uia'.provider = uia.provider /\ uia'.made = uia.made)]_vars

\* two calls ran together: one made the provider, the other waited for the lock and
\* found the initialization done; both returned the provider
C40_Witness ==
    /\ uia.via[1] = "made" /\ uia.pc[1] = "done" /\ uia.ret[1] = 1
    /\ uia.via[2] = "recheck" /\ uia.pc[2] = "done" /\ uia.ret[2] = 1
    /\ uia.made = 1

\* the one attempt failed and a later call returned null without another attempt
C40_WitnessFailed ==
    /\ uia.initialized
    /\ uia.provider = 0
    /\ uia.made = 1
    /\ \E t \in Threads : uia.pc[t] = "done" /\ uia.late[t] /\ uia.ret[t] = 0

====
